---- MODULE Spec2Model ----
(***************************************************************************)
(* State-machine model of the nxopentse journal library: the CAE           *)
(* postprocessing, preprocessing, solving and results-display helpers,     *)
(* together with the part of the host (Simcenter/NX session, file system)  *)
(* they read and write.                                                    *)
(*                                                                         *)
(* Python strings are modelled as sequences of one-character strings, so   *)
(* that str.lower(), str.strip(), str.split(",") and concatenation are     *)
(* computed and not assumed.                                               *)
(***************************************************************************)
EXTENDS Integers, Sequences, FiniteSets, TLC

VARIABLES
    workPart,          \* the_session.Parts.BaseWork, the part active in the host
    basePart,          \* base_part, the handle the postprocessing module took at load time
    cwd,               \* os.getcwd(), the working directory of the process
    expressions,       \* per part: names of its expressions, in host order
    companionResults,  \* per solution: names of the companion results of its result reference
    caeGroups,         \* the CaeGroups visible in the work part
    files,             \* the file system: path -> content of the file
    feModel,           \* objects created or solved in the host document
    postInputs,        \* the list of PostInput the running journal has built
    call               \* the last library call: arguments and outcome

vars == <<workPart, basePart, cwd, expressions, companionResults, caeGroups, files, feModel, postInputs, call>>

(***************************************************************************)
(* Python string primitives                                                *)
(***************************************************************************)
UpperCase == <<"A","B","C","D","E","F","G","H","I","J","K","L","M","N","O","P","Q","R","S","T","U","V","W","X","Y","Z">>
LowerCase == <<"a","b","c","d","e","f","g","h","i","j","k","l","m","n","o","p","q","r","s","t","u","v","w","x","y","z">>

UpperSet == { UpperCase[i] : i \in DOMAIN UpperCase }
LowerMap == [c \in UpperSet |-> LowerCase[CHOOSE i \in DOMAIN UpperCase : UpperCase[i] = c]]

lower_char(c) == IF c \in UpperSet THEN LowerMap[c] ELSE c

\* str.lower()
lower(s) == [i \in 1..Len(s) |-> lower_char(s[i])]

Whitespace == {" ", "\n", "\t", "\r"}

RECURSIVE lstrip(_)
lstrip(s) == IF s # <<>> /\ Head(s) \in Whitespace THEN lstrip(Tail(s)) ELSE s

RECURSIVE rstrip(_)
rstrip(s) ==
    IF s # <<>> /\ s[Len(s)] \in Whitespace THEN rstrip(SubSeq(s, 1, Len(s) - 1)) ELSE s

\* str.strip()
strip(s) == rstrip(lstrip(s))

\* [x for x in names if x.lower() == name.lower()][0] as an index into names;
\* 0 when the comprehension is empty
first_match(names, name) ==
    LET hits == { i \in DOMAIN names : lower(names[i]) = lower(name) } IN
    IF hits = {} THEN 0 ELSE CHOOSE i \in hits : \A j \in hits : i <= j

\* the same with an exact comparison of the names
first_exact_match(names, name) ==
    LET hits == { i \in DOMAIN names : names[i] = name } IN
    IF hits = {} THEN 0 ELSE CHOOSE i \in hits : \A j \in hits : i <= j

RemoveAt(seq, i) == SubSeq(seq, 1, i - 1) \o SubSeq(seq, i + 1, Len(seq))

\* Python list indexing base[i]: negative indices count from the end
PyIndexOK(i, n) == i < n /\ i >= -n

(***************************************************************************)
(* The parts open in the host session and their NXOpen classes             *)
(***************************************************************************)
Parts == {"plate.prt", "plate.fem", "plate.afem", "plate.sim"}

PartClass(part) ==
    CASE part = "plate.prt"  -> "Part"
      [] part = "plate.fem"  -> "FemPart"
      [] part = "plate.afem" -> "AssyFemPart"
      [] part = "plate.sim"  -> "SimPart"

\* the NXOpen class hierarchy below BasePart
BaseClasses(cls) ==
    CASE cls = "Part"        -> {"Part", "BasePart"}
      [] cls = "FemPart"     -> {"FemPart", "BaseFemPart", "CaePart", "BasePart"}
      [] cls = "AssyFemPart" -> {"AssyFemPart", "BaseFemPart", "CaePart", "BasePart"}
      [] cls = "SimPart"     -> {"SimPart", "CaePart", "BasePart"}

Class(name) == [kind |-> "class", name |-> name]
Instance(part) == [kind |-> "instance", class |-> PartClass(part)]

\* Python isinstance(obj, classinfo): a TypeError unless classinfo is a class
isinstance(obj, classinfo) ==
    IF classinfo.kind # "class" THEN "TypeError"
    ELSE IF obj.kind = "instance" /\ classinfo.name \in BaseClasses(obj.class) THEN "True"
    ELSE "False"

is_sim_part(part) == isinstance(Instance(part), Class("SimPart")) = "True"

(***************************************************************************)
(* The host document used by the postprocessing journals: a simulation     *)
(* with two solutions; only the first one has been solved.                 *)
(***************************************************************************)
NumLoadcases == 2      \* load cases of a solved solution's result
NumIterations == 1     \* iterations of each load case

SimSolutions == << <<"S","a">>, <<"S","b">> >>   \* sim_part.Simulation.Solutions, by Name
SolutionsWithResult == {1}                       \* solutions whose result file exists
\* iteration.GetResultTypes(), by Name
ResultTypeNames ==
    << <<"S","t","r","e","s","s">>,
       <<"D","i","s","p","l","a","c","e","m","e","n","t"," ","-"," ","N","o","d","a","l">> >>

PostInput(solution, subcase, iteration, resultType, identifier) ==
    [solution |-> solution, subcase |-> subcase, iteration |-> iteration,
     resultType |-> resultType, identifier |-> identifier]

\* preprocessing.get_solution: index of the first solution with that name, 0 for None
get_solution(part, solution_name) ==
    IF ~is_sim_part(part) THEN 0
    ELSE first_match(SimSolutions, solution_name)

\* load_results: "" or the exception that leaves it
RECURSIVE load_results(_, _)
load_results(post_inputs, part) ==
    IF ~is_sim_part(part) THEN "ValueError"
    ELSE IF post_inputs = <<>> THEN ""
    ELSE LET sim_solution == get_solution(part, Head(post_inputs).solution) IN
         IF sim_solution = 0 THEN "AttributeError"          \* None.Find(reference_type)
         ELSE IF sim_solution \notin SolutionsWithResult THEN "NXException"  \* CreateReferenceResult
         ELSE load_results(Tail(post_inputs), part)

result_type_matches(resultType) ==
    \E k \in DOMAIN ResultTypeNames :
        strip(lower(ResultTypeNames[k])) = strip(lower(resultType))

\* get_result_types: "" or the exception that leaves it
RECURSIVE get_result_types(_)
get_result_types(post_inputs) ==
    IF post_inputs = <<>> THEN ""
    ELSE LET p == Head(post_inputs) IN
         IF ~PyIndexOK(p.subcase - 1, NumLoadcases) THEN "IndexError"
         ELSE IF ~PyIndexOK(p.iteration - 1, NumIterations) THEN "IndexError"
         ELSE IF ~result_type_matches(p.resultType) THEN "ValueError"
         ELSE get_result_types(Tail(post_inputs))

\* delete_companion_result on the result reference of solution sol (an index)
delete_companion_result_case_sensitive(sol, companion_result_name, comps) ==
    LET i == first_exact_match(comps[sol], companion_result_name) IN
    IF i # 0 THEN [comps EXCEPT ![sol] = RemoveAt(comps[sol], i)] ELSE comps

delete_companion_result(sol, companion_result_name, comps) ==
    LET i == first_match(comps[sol], companion_result_name) IN
    IF i # 0 THEN [comps EXCEPT ![sol] = RemoveAt(comps[sol], i)] ELSE comps

\* check_post_input: the body after the leading return is never executed
check_post_input(post_inputs) == ""

nx_reserved_expressions ==
  << <<"a","n","g","l","e">>,
     <<"a","n","g","u","l","a","r"," ","v","e","l","o","c","i","t","y">>,
     <<"a","x","i","a","l">>,
     <<"c","o","n","t","a","c","t"," ","p","r","e","s","s","u","r","e">>,
     <<"C","o","r","n","e","r"," ","I","D">>,
     <<"d","e","p","t","h">>,
     <<"d","y","n","a","m","i","c"," ","v","i","s","c","o","s","i","t","y">>,
     <<"e","d","g","e","_","i","d">>,
     <<"e","l","e","m","e","n","t","_","i","d">>,
     <<"f","a","c","e","_","i","d">>,
     <<"f","l","u","i","d">>,
     <<"f","l","u","i","d"," ","t","e","m","p","e","r","a","t","u","r","e">>,
     <<"f","r","e","q","u","e","n","c","y">>,
     <<"g","a","p"," ","d","i","s","t","a","n","c","e">>,
     <<"h","e","a","t"," ","f","l","o","w"," ","r","a","t","e">>,
     <<"i","t","e","r","_","v","a","l">>,
     <<"l","e","n","g","t","h">>,
     <<"m","a","s","s"," ","d","e","n","s","i","t","y">>,
     <<"m","a","s","s"," ","f","l","o","w"," ","r","a","t","e">>,
     <<"n","o","d","e","_","i","d">>,
     <<"n","x">>,
     <<"n","y">>,
     <<"n","z">>,
     <<"p","h","i">>,
     <<"p","r","e","s","s","u","r","e">>,
     <<"r","a","d","i","u","s">>,
     <<"r","e","s","u","l","t">>,
     <<"r","o","t","a","t","i","o","n","a","l"," ","s","p","e","e","d">>,
     <<"s","o","l","i","d">>,
     <<"s","o","l","u","t","i","o","n">>,
     <<"s","p","e","c","i","f","i","c"," ","h","e","a","t">>,
     <<"s","t","e","p">>,
     <<"t","e","m","p","e","r","a","t","u","r","e">>,
     <<"t","e","m","p","e","r","a","t","u","r","e"," ","d","i","f","f","e","r","e","n","c","e">>,
     <<"t","h","e","r","m","a","l"," ","c","a","p","a","c","i","t","a","n","c","e">>,
     <<"t","h","e","r","m","a","l"," ","c","o","n","d","u","c","t","i","v","i","t","y">>,
     <<"t","h","e","t","a">>,
     <<"t","h","i","c","k","n","e","s","s">>,
     <<"t","i","m","e">>,
     <<"u">>,
     <<"v">>,
     <<"v","e","l","o","c","i","t","y">>,
     <<"v","o","l","u","m","e"," ","f","l","o","w"," ","r","a","t","e">>,
     <<"w">>,
     <<"x">>,
     <<"y">>,
     <<"z">> >>

\* item.lower() of every reserved name
reserved_lower == { lower(nx_reserved_expressions[k]) : k \in DOMAIN nx_reserved_expressions }
reserved_exact == { nx_reserved_expressions[k] : k \in DOMAIN nx_reserved_expressions }

is_reserved(identifier) == lower(identifier) \in reserved_lower

expression_in_use(identifier, exprs) ==
    \E k \in DOMAIN exprs : lower(exprs[k]) = lower(identifier)

\* check_post_input_identifiers: "" or the ValueError message it raises
RECURSIVE check_post_input_identifiers_exact(_, _)
check_post_input_identifiers_exact(post_inputs, exprs) ==
    IF post_inputs = <<>> THEN ""
    ELSE LET id == Head(post_inputs).identifier IN
         IF id = <<>> THEN "No identifier provided"
         ELSE IF id \in reserved_exact THEN "is a reserved expression"
         ELSE IF \E k \in DOMAIN exprs : exprs[k] = id THEN "already exist in this part"
         ELSE check_post_input_identifiers_exact(Tail(post_inputs), exprs)

RECURSIVE check_post_input_identifiers(_, _)
check_post_input_identifiers(post_inputs, exprs) ==
    IF post_inputs = <<>> THEN ""
    ELSE LET id == Head(post_inputs).identifier IN
         IF id = <<>> THEN "No identifier provided"
         ELSE IF is_reserved(id) THEN "is a reserved expression"
         ELSE IF expression_in_use(id, exprs) THEN "already exist in this part"
         ELSE check_post_input_identifiers(Tail(post_inputs), exprs)

\* ResultsCombinationBuilder.SetResultTypes(result_types, identifiers): the host
\* defines one expression per identifier it does not know yet
RECURSIVE SetResultTypes(_, _)
SetResultTypes(identifiers, exprs) ==
    IF identifiers = <<>> THEN exprs
    ELSE SetResultTypes(Tail(identifiers),
            IF \E k \in DOMAIN exprs : exprs[k] = Head(identifiers)
            THEN exprs ELSE Append(exprs, Head(identifiers)))

\* the finally block of combine_results: per identifier, delete the first
\* expression whose name matches it
RECURSIVE delete_identifier_expressions(_, _)
delete_identifier_expressions(identifiers, exprs) ==
    IF identifiers = <<>> THEN exprs
    ELSE LET i == first_match(exprs, Head(identifiers)) IN
         delete_identifier_expressions(Tail(identifiers),
            IF i # 0 THEN RemoveAt(exprs, i) ELSE exprs)

identifiers_of(post_inputs) == [i \in DOMAIN post_inputs |-> post_inputs[i].identifier]

CombineOutcome(outcome, error, log, exprs, comps, target, registered) ==
    [outcome |-> outcome, error |-> error, log |-> log, expressions |-> exprs,
     companionResults |-> comps, target |-> target, registered |-> registered]

\* combine_results from the builder on (lines 410-457). host_error names the
\* host call that raises: "" none, "builder" a setter between SetResultTypes
\* and Commit, "commit" the Commit itself. The builder defines the expressions
\* in the work part; the finally block deletes from sim_part = base_part.
combine_results_build(post_inputs, companion_result_name, target, host_error, base, work, exprs, comps) ==
    LET identifiers == identifiers_of(post_inputs)
        registered  == [exprs EXCEPT ![work] = SetResultTypes(identifiers, @)]
        cleaned     == [registered EXCEPT ![base] = delete_identifier_expressions(identifiers, @)]
    IN  IF host_error = "builder"
        THEN CombineOutcome("raised", "NXException", <<>>, registered, comps, target, TRUE)
        ELSE IF host_error = "commit"
        THEN CombineOutcome("raised", "NXException", <<"Error in CombineResults:">>,
                            cleaned, comps, target, TRUE)
        ELSE CombineOutcome("returned", "", <<"Combine result:">>, cleaned,
                            [comps EXCEPT ![target] = Append(@, companion_result_name)],
                            target, TRUE)

\* combine_results from the target selection on (lines 385-405)
combine_results_target(post_inputs, companion_result_name, solution_name, host_error, base, work, exprs, comps) ==
    LET named  == get_solution(work, solution_name)
        warn   == IF named = 0 /\ solution_name # <<>>
                  THEN <<"Solution not found. Adding companion result to first">> ELSE <<>>
        first  == IF post_inputs = <<>> THEN 0 ELSE get_solution(work, post_inputs[1].solution)
        target == IF named # 0 THEN named ELSE first
    IN  IF named = 0 /\ post_inputs = <<>>
        THEN CombineOutcome("raised", "IndexError", <<>>, exprs, comps, 0, FALSE)
        ELSE IF target = 0
        THEN CombineOutcome("raised", "AttributeError", warn, exprs, comps, 0, FALSE)
        ELSE LET deleted == delete_companion_result(target, companion_result_name, comps)
                 loaded  == load_results(post_inputs, work)
                 types   == get_result_types(post_inputs)
             IN  IF loaded # ""
                 THEN CombineOutcome("raised", loaded, warn, exprs, deleted, target, FALSE)
                 ELSE IF types # ""
                 THEN CombineOutcome("raised", types, warn, exprs, deleted, target, FALSE)
                 ELSE LET r == combine_results_build(post_inputs, companion_result_name,
                                    target, host_error, base, work, exprs, deleted)
                      IN  [r EXCEPT !.log = warn \o @]

\* combine_results(post_inputs, formula, companion_result_name, unv_file_name,
\* result_quantity, solution_name); the formula, the file name and the quantity
\* are handed to the host unread
combine_results(post_inputs, companion_result_name, solution_name, host_error, base, work, exprs, comps) ==
    IF ~is_sim_part(base)
    THEN CombineOutcome("returned", "", <<"CombineResults needs to start from a .sim file. Exiting">>,
                        exprs, comps, 0, FALSE)
    ELSE LET ids == check_post_input_identifiers(post_inputs, exprs[base]) IN
         IF check_post_input(post_inputs) # "" \/ ids # ""
         THEN CombineOutcome("returned", "",
                  <<"Did not execute CombineResults due to input error.", ids>>,
                  exprs, comps, 0, FALSE)
         ELSE combine_results_target(post_inputs, companion_result_name, solution_name,
                                     host_error, base, work, exprs, comps)

(***************************************************************************)
(* Inputs of the postprocessing calls                                      *)
(***************************************************************************)
MaxPostInputs == 2     \* longest list of PostInput a journal builds

Stress == <<"S","t","r","e","s","s">>

\* PostInputs a journal hands to combine_results
CombineInputs ==
    { PostInput(<<"S","a">>, 1, 1, Stress, <<"a">>),
      PostInput(<<"S","A">>, 2, 1, <<" ","s","t","r","e","s","s">>, <<"A">>),
      PostInput(<<"S","x">>, 1, 1, Stress, <<"b">>),
      PostInput(<<"S","a">>, NumLoadcases + 1, 1, Stress, <<"b">>),
      PostInput(<<"S","a">>, 1, NumIterations + 1, Stress, <<"a">>),
      PostInput(<<"S","a">>, 1, 1, <<"S","t","r","a","i","n">>, <<"b">>) }

\* identifiers a journal hands to check_post_input_identifiers
Identifiers ==
    { <<>>, <<"a">>, <<"A">>, <<"m","y","R","e","s","u","l","t","1">>,
      <<"p","r","e","s","s","u","r","e">>, <<"P","R","E","S","S","U","R","E">>,
      <<"c","o","r","n","e","r"," ","i","d">>, <<"p","r","e","s","s","u","r","e","1">> }

CheckInputs ==
    { PostInput(<<"S","a">>, 1, 1, Stress, id) : id \in Identifiers }
    \cup { PostInput(<<"S","b">>, 1, 1, Stress, <<"a">>),
           PostInput(<<"S","x">>, 1, 1, Stress, <<"a">>),
           PostInput(<<"S","a">>, 0, 1, Stress, <<"a">>),
           PostInput(<<"S","a">>, 1, NumIterations + 1, Stress, <<"a">>),
           PostInput(<<"S","a">>, 1, 1, <<"S","t","r","a","i","n">>, <<"a">>) }

\* names of expressions a user defines in the part by hand
UserExpressions == { <<"a">>, <<"M","y","r","e","s","u","l","t","1">> }

CompanionNames == { <<"c","o","m","b">>, <<"C","o","m","b">> }
SolutionNames == { <<>>, <<"s","a">>, <<"S","x">> }
HostErrors == {"", "builder", "commit"}

NoCall == [op |-> "none"]

\* the directory the host process is started in
StartDirectory == <<"/","w">>

\* files maps each existing path to the content of the file
NoFiles == [p \in {} |-> <<>>]

NoModel == [nodes |-> {}, collectors |-> <<>>, solved |-> <<>>]

(***************************************************************************)
(* Journal combining results: the module is loaded with the work part      *)
(* active, the journal builds its list of PostInput and calls              *)
(***************************************************************************)
Init ==
    /\ workPart \in {"plate.sim", "plate.fem"}
    /\ basePart = workPart
    /\ cwd = StartDirectory
    /\ expressions = [p \in Parts |-> <<>>]
    /\ companionResults = [s \in DOMAIN SimSolutions |-> <<>>]
    /\ caeGroups = <<>>
    /\ files = NoFiles
    /\ feModel = NoModel
    /\ postInputs = <<>>
    /\ call = NoCall

\* the journal starts a new list
NewPostInputs ==
    /\ postInputs # <<>>
    /\ postInputs' = <<>>
    /\ call' = NoCall
    /\ UNCHANGED <<workPart, basePart, cwd, expressions, companionResults, caeGroups, files,
                   feModel>>

\* the journal appends PostInput(...) to its list
AddPostInput ==
    /\ Len(postInputs) < MaxPostInputs
    /\ \E p \in CombineInputs : postInputs' = Append(postInputs, p)
    /\ call' = NoCall
    /\ UNCHANGED <<workPart, basePart, cwd, expressions, companionResults, caeGroups, files,
                   feModel>>

CombineResults ==
    /\ \E name \in CompanionNames, solution_name \in SolutionNames, host_error \in HostErrors :
          LET r == combine_results(postInputs, name, solution_name, host_error,
                                   basePart, workPart, expressions, companionResults)
          IN  /\ expressions' = r.expressions
              /\ companionResults' = r.companionResults
              /\ call' = [op |-> "combine_results", post_inputs |-> postInputs,
                          companion_result_name |-> name, solution_name |-> solution_name,
                          outcome |-> r.outcome, error |-> r.error, log |-> r.log,
                          target |-> r.target, registered |-> r.registered,
                          before |-> companionResults]
    /\ UNCHANGED <<workPart, basePart, cwd, caeGroups, files, feModel, postInputs>>

Next ==
    \/ NewPostInputs
    \/ AddPostInput
    \/ CombineResults

Spec == Init /\ [][Next]_vars

(***************************************************************************)
(* Journal validating its inputs before use                                *)
(***************************************************************************)
InitCheck ==
    /\ workPart = "plate.sim"
    /\ basePart = workPart
    /\ cwd = StartDirectory
    /\ expressions = [p \in Parts |-> <<>>]
    /\ companionResults = [s \in DOMAIN SimSolutions |-> <<>>]
    /\ caeGroups = <<>>
    /\ files = NoFiles
    /\ feModel = NoModel
    /\ postInputs = <<>>
    /\ call = NoCall

\* the user defines an expression in the work part
CreateExpression ==
    /\ \E name \in UserExpressions :
          /\ \A k \in DOMAIN expressions[workPart] :
                lower(expressions[workPart][k]) # lower(name)
          /\ expressions' = [expressions EXCEPT ![workPart] = Append(@, name)]
    /\ call' = NoCall
    /\ UNCHANGED <<workPart, basePart, cwd, companionResults, caeGroups, files, feModel,
                   postInputs>>

AddCheckInput ==
    /\ Len(postInputs) < MaxPostInputs
    /\ \E p \in CheckInputs : postInputs' = Append(postInputs, p)
    /\ call' = NoCall
    /\ UNCHANGED <<workPart, basePart, cwd, expressions, companionResults, caeGroups, files,
                   feModel>>

CheckPostInput ==
    /\ call' = [op |-> "check_post_input", post_inputs |-> postInputs,
                error |-> check_post_input(postInputs)]
    /\ UNCHANGED <<workPart, basePart, cwd, expressions, companionResults, caeGroups, files,
                   feModel, postInputs>>

CheckPostInputIdentifiers ==
    /\ call' = [op |-> "check_post_input_identifiers", post_inputs |-> postInputs,
                error |-> check_post_input_identifiers(postInputs, expressions[basePart])]
    /\ UNCHANGED <<workPart, basePart, cwd, expressions, companionResults, caeGroups, files,
                   feModel, postInputs>>

NextCheck ==
    \/ NewPostInputs
    \/ AddCheckInput
    \/ CreateExpression
    \/ CheckPostInput
    \/ CheckPostInputIdentifiers

SpecCheck == InitCheck /\ [][NextCheck]_vars

(***************************************************************************)
(* Preprocessing and solving: the calls that change the host document      *)
(***************************************************************************)
Digits == <<"0","1","2","3","4","5","6","7","8","9">>

\* str() of a non-negative int
RECURSIVE str_int(_)
str_int(n) ==
    IF n < 10 THEN <<Digits[n + 1]>>
    ELSE str_int(n \div 10) \o <<Digits[(n % 10) + 1]>>

\* str() of a float with one decimal, the float given in tenths: 105 is 10.5
str_float(tenths) == str_int(tenths \div 10) \o <<".">> \o <<Digits[(tenths % 10) + 1]>>

\* materials in use in the fem part
UsedMaterials == << <<"S","t","e","e","l">> >>

HostOutcome(outcome, error, log, model) ==
    [outcome |-> outcome, error |-> error, log |-> log, model |-> model]

create_node(label, x_coordinate, y_coordinate, z_coordinate, work, model) ==
    LET guard == isinstance(Class("BaseFemPart"), Instance(work))
    IN  IF guard = "TypeError" THEN HostOutcome("raised", "TypeError", <<>>, model)
        ELSE IF guard # "True"
        THEN HostOutcome("returned", "",
                         <<"create_node needs to start from a .fem or .afem file. Exiting">>, model)
        ELSE HostOutcome("returned", "", <<>>,
                         [model EXCEPT !.nodes = @ \cup {[label |-> label, x |-> x_coordinate,
                                                          y |-> y_coordinate, z |-> z_coordinate]}])

\* an optional argument is None or a one-element sequence holding the value
None == <<>>

\* the label for the new physical property table: one more than the label of
\* the last table the part reports
max_label(physicalPropertyTables) ==
    IF Len(physicalPropertyTables) # 0
    THEN physicalPropertyTables[Len(physicalPropertyTables)].label + 1
    ELSE 1

create_2dmesh_collector(thickness, color, work, model) ==
    LET guard == isinstance(Class("FemPart"), Instance(work))
        steel == first_exact_match(UsedMaterials, <<"S","t","e","e","l">>)
        name == str_float(thickness) \o <<"m","m">>
    IN  IF guard = "TypeError" THEN HostOutcome("raised", "TypeError", <<>>, model)
        ELSE IF guard # "True"
        THEN HostOutcome("returned", "",
                         <<"create_node needs to start from a .fem file. Exiting">>, model)
        ELSE IF steel = 0 THEN HostOutcome("raised", "IndexError", <<>>, model)
        ELSE HostOutcome("returned", "", <<>>,
                         [model EXCEPT !.collectors =
                             Append(@, [name |-> name, label |-> max_label(model.collectors),
                                        color |-> IF color = None
                                                  THEN (max_label(model.collectors) * 10) % 216
                                                  ELSE color[1]])])

solve_solution(solution_name, work, model) ==
    LET guard == isinstance(Class("SimPart"), Instance(work))
        sim_solution == first_match(SimSolutions, solution_name)
    IN  IF guard = "TypeError" THEN HostOutcome("raised", "TypeError", <<>>, model)
        ELSE IF guard # "True"
        THEN HostOutcome("returned", "",
                         <<"solve_solution needs to start from a .sim file. Exiting">>, model)
        ELSE IF sim_solution = 0
        THEN HostOutcome("raised", "IndexError", <<"Solving">>, model)
        ELSE HostOutcome("returned", "", <<"Solving", "Solved solution">>,
                         [model EXCEPT !.solved = @ \o <<sim_solution, sim_solution>>])

solve_all_solutions(work, model) ==
    LET guard == isinstance(Class("SimPart"), Instance(work))
    IN  IF guard = "TypeError" THEN HostOutcome("raised", "TypeError", <<>>, model)
        ELSE IF guard # "True"
        THEN HostOutcome("returned", "",
                         <<"solve_all_solutions needs to start from a .sim file. Exiting">>, model)
        ELSE HostOutcome("returned", "", <<"Solving all solutions:">>,
                         [model EXCEPT !.solved = @ \o [k \in DOMAIN SimSolutions |-> k]])

MaxLabel == 3
Coordinates == {0, 1}
Thicknesses == {80, 105}
Colors == {None, <<5>>}
MaxObjects == 2

(***************************************************************************)
(* Journal building and solving a model: the user activates a part and the *)
(* journal calls the preprocessing and solving functions                   *)
(***************************************************************************)
InitGuard ==
    /\ workPart \in Parts
    /\ basePart = workPart
    /\ cwd = StartDirectory
    /\ expressions = [p \in Parts |-> <<>>]
    /\ companionResults = [s \in DOMAIN SimSolutions |-> <<>>]
    /\ caeGroups = <<>>
    /\ files = NoFiles
    /\ feModel = NoModel
    /\ postInputs = <<>>
    /\ call = NoCall

\* the user makes another part the work part
ChangeWorkPart ==
    /\ \E part \in Parts \ {workPart} : workPart' = part
    /\ call' = NoCall
    /\ UNCHANGED <<basePart, cwd, expressions, companionResults, caeGroups, files, feModel,
                   postInputs>>

\* the user makes a mesh collector with its physical property table by hand,
\* under a label that is free
UserCreatesCollector ==
    /\ Len(feModel.collectors) < MaxObjects
    /\ \E label \in 1..MaxLabel :
           /\ \A k \in DOMAIN feModel.collectors : feModel.collectors[k].label # label
           /\ feModel' = [feModel EXCEPT !.collectors =
                              Append(@, [name |-> <<"u">>, label |-> label, color |-> 0])]
    /\ call' = NoCall
    /\ UNCHANGED <<workPart, basePart, cwd, expressions, companionResults, caeGroups, files,
                   postInputs>>

HostCall(op, args, r) ==
    /\ feModel' = r.model
    /\ call' = [op |-> op, args |-> args, work |-> workPart, outcome |-> r.outcome,
                error |-> r.error, log |-> r.log, before |-> feModel]
    /\ UNCHANGED <<workPart, basePart, cwd, expressions, companionResults, caeGroups, files,
                   postInputs>>

CreateNode ==
    /\ Cardinality(feModel.nodes) < MaxObjects
    /\ \E label \in 1..MaxLabel, x \in Coordinates, y \in Coordinates, z \in Coordinates :
          HostCall("create_node", <<label, x, y, z>>,
                   create_node(label, x, y, z, workPart, feModel))

Create2dMeshCollector ==
    /\ Len(feModel.collectors) < MaxObjects
    /\ \E thickness \in Thicknesses, color \in Colors :
          HostCall("create_2dmesh_collector", <<thickness, color>>,
                   create_2dmesh_collector(thickness, color, workPart, feModel))

SolveSolution ==
    /\ Len(feModel.solved) < MaxObjects
    /\ \E solution_name \in SolutionNames :
          HostCall("solve_solution", <<solution_name>>,
                   solve_solution(solution_name, workPart, feModel))

SolveAllSolutions ==
    /\ Len(feModel.solved) < MaxObjects
    /\ HostCall("solve_all_solutions", <<>>, solve_all_solutions(workPart, feModel))

NextGuard ==
    \/ ChangeWorkPart
    \/ UserCreatesCollector
    \/ CreateNode
    \/ Create2dMeshCollector
    \/ SolveSolution
    \/ SolveAllSolutions

SpecGuard == InitGuard /\ [][NextGuard]_vars

(***************************************************************************)
(* The file system and os.path (posixpath)                                 *)
(***************************************************************************)
exists(path, fs) == path \in DOMAIN fs

write_file(path, content, fs) ==
    [p \in DOMAIN fs \cup {path} |-> IF p = path THEN content ELSE fs[p]]

remove_file(path, fs) == [p \in DOMAIN fs \ {path} |-> fs[p]]

\* str.rfind, 1-based: the last position of the character, 0 when absent
rfind(s, c) ==
    IF \E k \in DOMAIN s : s[k] = c
    THEN CHOOSE k \in DOMAIN s : s[k] = c /\ \A j \in DOMAIN s : s[j] = c => j <= k
    ELSE 0

\* os.path.splitext: <<root, ext>>; dots leading the base name start no extension
splitext(p) ==
    LET sepIndex == rfind(p, "/")
        dotIndex == rfind(p, ".")
    IN  IF dotIndex > sepIndex /\ \E k \in (sepIndex + 1)..(dotIndex - 1) : p[k] # "."
        THEN <<SubSeq(p, 1, dotIndex - 1), SubSeq(p, dotIndex, Len(p))>>
        ELSE <<p, <<>>>>

RECURSIVE rstrip_sep(_)
rstrip_sep(s) ==
    IF s # <<>> /\ s[Len(s)] = "/" THEN rstrip_sep(SubSeq(s, 1, Len(s) - 1)) ELSE s

\* os.path.dirname
dirname(p) ==
    LET head == SubSeq(p, 1, rfind(p, "/"))
    IN  IF head # <<>> /\ \E k \in DOMAIN head : head[k] # "/" THEN rstrip_sep(head) ELSE head

\* os.path.join of two components
join(a, b) ==
    IF b # <<>> /\ b[1] = "/" THEN b
    ELSE IF a = <<>> \/ a[Len(a)] = "/" THEN a \o b
    ELSE a \o <<"/">> \o b

\* base_part.FullPath: every part of the model is saved in the same folder
FullPath(part) ==
    <<"/","m","/","p","l","a","t","e">> \o
    ( CASE part = "plate.prt"  -> <<".","p","r","t">>
        [] part = "plate.fem"  -> <<".","f","e","m">>
        [] part = "plate.afem" -> <<".","a","f","e","m">>
        [] part = "plate.sim"  -> <<".","s","i","m">> )

\* create_full_path once the extension is settled
add_path(file_name, work) ==
    IF dirname(file_name) = <<>>
    THEN IF work \notin Parts
         THEN [error |-> "ValueError", path |-> <<>>]
         ELSE [error |-> "", path |-> join(dirname(FullPath(work)), file_name)]
    ELSE [error |-> "", path |-> file_name]

\* the extension is added whether or not the name has one
always_add_extension(file_name, extension, work) == add_path(file_name \o extension, work)

create_full_path(file_name, extension, work) ==
    add_path(IF splitext(file_name)[2] = <<>> THEN file_name \o extension ELSE file_name, work)

(***************************************************************************)
(* results_display: exporting the view to an image file                    *)
(***************************************************************************)
\* a line written to the listing window: the fixed text and the values put in it
LogLine(text, args) == [text |-> text, args |-> args]

TiffImage == <<"T","I","F","F">>

endswith(s, suffix) ==
    Len(s) >= Len(suffix) /\ SubSeq(s, Len(s) - Len(suffix) + 1, Len(s)) = suffix

\* The file ImageExportBuilder.Commit writes: the host adds the extension of
\* the file format to FileName; whether it adds it again to a name that
\* already carries it is the host's choice (host_appends).
ExportPath(file_name, host_appends) ==
    IF endswith(file_name, <<".","t","i","f">>) /\ ~host_appends THEN file_name
    ELSE file_name \o <<".","t","i","f">>

SaveOutcome(outcome, error, log, fs, removed, export_path) ==
    [outcome |-> outcome, error |-> error, log |-> log, files |-> fs,
     removed |-> removed, export_path |-> export_path]

\* save_view_to_file once the path is made
export_view(full, fs, target, host_overwrites) ==
    LET file_path_without_extension == full.path
        file_path_with_extension == file_path_without_extension \o <<"t","i","f">>
        remove == exists(file_path_with_extension, fs)
        removed == IF remove THEN {file_path_without_extension} ELSE {}
        after_remove == IF remove THEN remove_file(file_path_without_extension, fs) ELSE fs
    IN  IF full.error # "" THEN SaveOutcome("raised", full.error, <<>>, fs, {}, <<>>)
        ELSE IF remove /\ ~exists(file_path_without_extension, fs)
        THEN SaveOutcome("raised", "FileNotFoundError", <<>>, fs, {}, target)
        ELSE IF exists(target, after_remove) /\ ~host_overwrites
        THEN SaveOutcome("returned", "", <<LogLine("NXException", <<>>)>>, after_remove, removed, target)
        ELSE SaveOutcome("returned", "", <<>>, write_file(target, TiffImage, after_remove),
                         removed, target)

export_to(full, fs, host_appends, host_overwrites) ==
    export_view(full, fs, ExportPath(full.path, host_appends), host_overwrites)

save_view_to_file(file_name, work, fs, host_appends, host_overwrites) ==
    export_to(create_full_path(file_name, <<>>, work), fs, host_appends, host_overwrites)

FileNames ==
    { <<"s">>, <<"s",".","t","i","f">>, <<"/","m","/","s">>, <<"/","o","/","s">> }

\* files a user may have around: earlier exports and files named alike
UserFiles ==
    { <<"/","m","/","s">>, <<"/","m","/","s","t","i","f">>, <<"/","m","/","s",".","t","i","f">>,
      <<"/","m","/","s",".","t","i","f","t","i","f">>, <<"/","o","/","s",".","t","i","f">> }

OldImage == <<"o","l","d">>

(***************************************************************************)
(* Journal exporting views: the user keeps files, the journal saves views  *)
(***************************************************************************)
InitSave ==
    /\ workPart \in {"plate.sim", "plate.fem"}
    /\ basePart = workPart
    /\ cwd = StartDirectory
    /\ expressions = [p \in Parts |-> <<>>]
    /\ companionResults = [s \in DOMAIN SimSolutions |-> <<>>]
    /\ caeGroups = <<>>
    /\ files = NoFiles
    /\ feModel = NoModel
    /\ postInputs = <<>>
    /\ call = NoCall

UserCreatesFile ==
    /\ \E path \in UserFiles \ DOMAIN files : files' = write_file(path, OldImage, files)
    /\ call' = NoCall
    /\ UNCHANGED <<workPart, basePart, cwd, expressions, companionResults, caeGroups, feModel,
                   postInputs>>

UserDeletesFile ==
    /\ \E path \in DOMAIN files : files' = remove_file(path, files)
    /\ call' = NoCall
    /\ UNCHANGED <<workPart, basePart, cwd, expressions, companionResults, caeGroups, feModel,
                   postInputs>>

SaveCall(file_name, r) ==
    /\ files' = r.files
    /\ call' = [op |-> "save_view_to_file", file_name |-> file_name,
                outcome |-> r.outcome, error |-> r.error, log |-> r.log,
                removed |-> r.removed, export_path |-> r.export_path, before |-> files]
    /\ UNCHANGED <<workPart, basePart, cwd, expressions, companionResults, caeGroups, feModel,
                   postInputs>>

SaveViewToFile ==
    \E file_name \in FileNames, host_appends \in BOOLEAN, host_overwrites \in BOOLEAN :
        SaveCall(file_name,
                 save_view_to_file(file_name, workPart, files, host_appends, host_overwrites))

NextSave ==
    \/ UserCreatesFile
    \/ UserDeletesFile
    \/ SaveViewToFile

SpecSave == InitSave /\ [][NextSave]_vars

(***************************************************************************)
(* results_display: reading the screenshot definitions                     *)
(***************************************************************************)
\* str.find, 1-based: the first position of the character, 0 when absent
find(s, c) ==
    IF \E k \in DOMAIN s : s[k] = c
    THEN CHOOSE k \in DOMAIN s : s[k] = c /\ \A j \in DOMAIN s : s[j] = c => k <= j
    ELSE 0

\* file.readlines(): every line keeps its newline, the last one may have none
RECURSIVE readlines(_)
readlines(content) ==
    IF content = <<>> THEN <<>>
    ELSE LET k == find(content, "\n") IN
         IF k = 0 THEN <<content>>
         ELSE <<SubSeq(content, 1, k)>> \o readlines(SubSeq(content, k + 1, Len(content)))

\* str.split(sep) for a one-character separator
RECURSIVE split(_, _)
split(s, sep) ==
    LET k == find(s, sep) IN
    IF k = 0 THEN <<s>>
    ELSE <<SubSeq(s, 1, k - 1)>> \o split(SubSeq(s, k + 1, Len(s)), sep)

DigitSet == { Digits[k] : k \in DOMAIN Digits }

RECURSIVE digits_value(_, _)
digits_value(s, acc) ==
    IF s = <<>> THEN acc
    ELSE digits_value(Tail(s), 10 * acc + (find(Digits, Head(s)) - 1))

\* int(str): surrounding whitespace, an optional sign, digits; ok is FALSE
\* where Python raises ValueError
int(s) ==
    LET t == strip(s)
        signed == t # <<>> /\ Head(t) \in {"+", "-"}
        body == IF signed THEN Tail(t) ELSE t
    IN  IF body = <<>> \/ \E k \in DOMAIN body : body[k] \notin DigitSet
        THEN [ok |-> FALSE, value |-> 0]
        ELSE [ok |-> TRUE,
              value |-> IF signed /\ Head(t) = "-" THEN 0 - digits_value(body, 0)
                        ELSE digits_value(body, 0)]

ScreenShot(values, subcase, iteration) ==
    [file_name |-> strip(values[1]), annotation_text |-> strip(values[2]),
     template_name |-> strip(values[3]), group_name |-> strip(values[4]),
     camera_name |-> strip(values[5]), solution |-> strip(values[6]),
     subcase |-> subcase, iteration |-> iteration,
     resultType |-> strip(values[9]), component_name |-> strip(values[10]),
     identifier |-> <<>>]

NumberOfItems == 10

ReadOutcome(error, log, screenshots, is_none) ==
    [error |-> error, log |-> log, screenshots |-> screenshots, is_none |-> is_none]

\* the loop over the lines of the file and the final return
RECURSIVE read_screenshot_lines(_, _)
read_screenshot_lines(csv_string, screenshots_from_file) ==
    IF csv_string = <<>>
    THEN ReadOutcome("", <<>>, screenshots_from_file, screenshots_from_file = <<>>)
    ELSE LET line == Head(csv_string)
             values == split(line, ",")
         IN  IF line = <<>> \/ Len(line) = 1
             THEN read_screenshot_lines(Tail(csv_string), screenshots_from_file)
             ELSE IF Len(values) # NumberOfItems
             THEN ReadOutcome("Exception",
                              <<LogLine("There should be 10 items in each input line", <<>>)>>
                                  \o [i \in DOMAIN values |-> LogLine("Item", <<i - 1, values[i]>>)],
                              <<>>, FALSE)
             ELSE LET subcase == int(strip(values[7]))
                      iteration == int(strip(values[8]))
                  IN  IF ~subcase.ok \/ ~iteration.ok
                      THEN ReadOutcome("ValueError", <<>>, <<>>, FALSE)
                      ELSE read_screenshot_lines(Tail(csv_string),
                               Append(screenshots_from_file,
                                      ScreenShot(values, subcase.value, iteration.value)))

\* the ScreenShots of the file, None (is_none) when there are none, or the
\* exception that leaves the call
read_screenshot_definitions(file_path, fs) ==
    IF ~exists(file_path, fs)
    THEN ReadOutcome("FileNotFoundError", <<LogLine("Error: could not find", <<file_path>>)>>,
                     <<>>, FALSE)
    ELSE read_screenshot_lines(readlines(fs[file_path]), <<>>)

\* one line of definitions:
\* file_name, annotation_text, template_name, group_name, camera_name,
\* solution, subcase, iteration, resultType, component_name
CsvLine(file_name, template_name, group_name, camera_name, solution, subcase, component_name) ==
    file_name \o <<",">> \o <<"n","o","t","e">> \o <<",">> \o template_name \o <<",">>
        \o group_name \o <<",">> \o camera_name \o <<",">> \o solution \o <<",">>
        \o subcase \o <<",">> \o <<"1">> \o <<",">> \o Stress \o <<",">> \o component_name

DefinitionLine(file_name, group_name, subcase, component_name) ==
    CsvLine(file_name, <<"t">>, group_name, <<"c">>, <<" ","s","a">>, subcase, component_name)

GoodLine == DefinitionLine(<<"s">>, <<"g">>, <<" ","1"," ">>, <<"X">>)

LineTexts ==
    { <<>>, <<"x">>, <<" ">>, <<"a",",","b">>, GoodLine,
      DefinitionLine(<<"s">>, <<"g">>, <<"o","n","e">>, <<"X">>) }

MaxLines == 3

CsvPath == <<"/","m","/","d",".","c","s","v">>
CsvPaths == { CsvPath, <<"/","m","/","e",".","c","s","v">> }

NumberOfLines(content) == Len(readlines(content))

(***************************************************************************)
(* Journal reading definitions: the user edits the definitions file line   *)
(* by line and the journal reads it                                        *)
(***************************************************************************)
InitParse ==
    /\ workPart = "plate.sim"
    /\ basePart = workPart
    /\ cwd = StartDirectory
    /\ expressions = [p \in Parts |-> <<>>]
    /\ companionResults = [s \in DOMAIN SimSolutions |-> <<>>]
    /\ caeGroups = <<>>
    /\ files = NoFiles
    /\ feModel = NoModel
    /\ postInputs = <<>>
    /\ call = NoCall

\* the user adds a line to the file; only the last line of a file can go
\* without its newline
UserAppendsLine ==
    /\ LET content == IF exists(CsvPath, files) THEN files[CsvPath] ELSE <<>> IN
          /\ IF content = <<>> THEN TRUE ELSE content[Len(content)] = "\n"
          /\ NumberOfLines(content) < MaxLines
          /\ \E text \in LineTexts, terminated \in BOOLEAN :
                files' = write_file(CsvPath,
                                    content \o text \o (IF terminated THEN <<"\n">> ELSE <<>>),
                                    files)
    /\ call' = NoCall
    /\ UNCHANGED <<workPart, basePart, cwd, expressions, companionResults, caeGroups, feModel,
                   postInputs>>

UserDeletesDefinitions ==
    /\ exists(CsvPath, files)
    /\ files' = remove_file(CsvPath, files)
    /\ call' = NoCall
    /\ UNCHANGED <<workPart, basePart, cwd, expressions, companionResults, caeGroups, feModel,
                   postInputs>>

ReadScreenshotDefinitions ==
    /\ \E file_path \in CsvPaths :
          LET r == read_screenshot_definitions(file_path, files)
          IN  call' = [op |-> "read_screenshot_definitions", file_path |-> file_path,
                       error |-> r.error, log |-> r.log, screenshots |-> r.screenshots,
                       is_none |-> r.is_none]
    /\ UNCHANGED <<workPart, basePart, cwd, expressions, companionResults, caeGroups, files,
                   feModel, postInputs>>

NextParse ==
    \/ UserAppendsLine
    \/ UserDeletesDefinitions
    \/ ReadScreenshotDefinitions

SpecParse == InitParse /\ [][NextParse]_vars

(***************************************************************************)
(* results_display: generating the screenshots                             *)
(***************************************************************************)
\* the ASCII characters from code point 32 to 95 and from 97 to 126, in the
\* order of their code points
AsciiFrom32 ==
    <<
      " ", "!", "\"", "#", "$", "%", "&", "'", "(", ")", "*", "+", ",", "-", ".", "/",
      "0", "1", "2", "3", "4", "5", "6", "7", "8", "9", ":", ";", "<", "=", ">", "?",
      "@", "A", "B", "C", "D", "E", "F", "G", "H", "I", "J", "K", "L", "M", "N", "O",
      "P", "Q", "R", "S", "T", "U", "V", "W", "X", "Y", "Z", "[", "\\", "]", "^", "_"
    >>

AsciiFrom97 ==
    <<
      "a", "b", "c", "d", "e", "f", "g", "h", "i", "j", "k", "l", "m", "n", "o",
      "p", "q", "r", "s", "t", "u", "v", "w", "x", "y", "z", "{", "|", "}", "~"
    >>

OrdMap ==
    [c \in { AsciiFrom32[k] : k \in DOMAIN AsciiFrom32 } \cup { AsciiFrom97[k] : k \in DOMAIN AsciiFrom97 } |->
        IF find(AsciiFrom32, c) # 0 THEN 31 + find(AsciiFrom32, c) ELSE 96 + find(AsciiFrom97, c)]

\* ord() of a character
ord(c) ==
    CASE c = "\t" -> 9
      [] c = "\n" -> 10
      [] c = "\r" -> 13
      [] OTHER -> OrdMap[c]

\* comparison of two str: -1, 0 or 1
RECURSIVE str_cmp(_, _)
str_cmp(a, b) ==
    IF a = <<>> /\ b = <<>> THEN 0
    ELSE IF a = <<>> THEN 0 - 1
    ELSE IF b = <<>> THEN 1
    ELSE IF ord(Head(a)) < ord(Head(b)) THEN 0 - 1
    ELSE IF ord(Head(a)) > ord(Head(b)) THEN 1
    ELSE str_cmp(Tail(a), Tail(b))

\* x sorts strictly before y under the key
\* (x._solution, x._subcase, x._iteration, x._resultType)
key_less(x, y) ==
    LET solution == str_cmp(x.solution, y.solution) IN
    IF solution # 0 THEN solution < 0
    ELSE IF x.subcase # y.subcase THEN x.subcase < y.subcase
    ELSE IF x.iteration # y.iteration THEN x.iteration < y.iteration
    ELSE str_cmp(x.resultType, y.resultType) < 0

\* an insertion that is not stable: x goes before the elements with its key
insert_before_equal(sorted_list, x) ==
    LET later == { k \in DOMAIN sorted_list : ~key_less(sorted_list[k], x) }
        at == IF later = {} THEN Len(sorted_list) + 1
              ELSE CHOOSE k \in later : \A j \in later : k <= j
    IN  SubSeq(sorted_list, 1, at - 1) \o <<x>> \o SubSeq(sorted_list, at, Len(sorted_list))

\* sorted() is stable: x goes behind every element that does not sort after it
insert_sorted(sorted_list, x) ==
    LET later == { k \in DOMAIN sorted_list : key_less(x, sorted_list[k]) }
        at == IF later = {} THEN Len(sorted_list) + 1
              ELSE CHOOSE k \in later : \A j \in later : k <= j
    IN  SubSeq(sorted_list, 1, at - 1) \o <<x>> \o SubSeq(sorted_list, at, Len(sorted_list))

RECURSIVE sorted(_, _)
sorted(list, done) ==
    IF list = <<>> THEN done ELSE sorted(Tail(list), insert_sorted(done, Head(list)))

sort_screenshots(screenshots) == sorted(screenshots, <<>>)

\* the comparison without the component name
result_key_changed(self, other) ==
    \/ self.solution # other.solution
    \/ self.subcase # other.subcase
    \/ self.iteration # other.iteration
    \/ self.resultType # other.resultType

need_change_result(self, other) ==
    \/ self.solution # other.solution
    \/ self.subcase # other.subcase
    \/ self.iteration # other.iteration
    \/ self.resultType # other.resultType
    \/ self.component_name # other.component_name

\* the host document shown in the screenshots: post templates, cameras and
\* the attributes of NXOpen.CAE.Result.Component
Templates == { <<"t">> }
Cameras == << <<"c">> >>
ComponentNames == { <<"X">>, <<"Y">>, <<"Z">>, <<"S","c","a","l","a","r">> }

\* a CaeGroup of the simulation part; OwningComponent is "None" for a group
\* of the simulation itself and the component for a group of the fem
Group(name, owning_component, entities) ==
    [Name |-> name, OwningComponent |-> owning_component, entities |-> entities]

group_names(groups) == [k \in DOMAIN groups |-> groups[k].Name]

count_matches(names, name) ==
    Cardinality({ k \in DOMAIN names : lower(names[k]) = lower(name) })

CheckOutcome(error, log) == [error |-> error, log |-> log]

RECURSIVE check_each_screenshot(_, _, _)
check_each_screenshot(screenshots, groups, log) ==
    IF screenshots = <<>> THEN CheckOutcome("", log)
    ELSE LET screenshot == Head(screenshots)
             cae_group == count_matches(group_names(groups), screenshot.group_name)
             camera == count_matches(Cameras, screenshot.camera_name)
             group_warning ==
                 IF cae_group # 1
                 THEN <<LogLine("WARNING", <<screenshot.file_name>>),
                        LogLine("FOUND MULTIPLE GROUPS WITH THE NAME", <<screenshot.group_name>>)>>
                 ELSE <<>>
             camera_warning ==
                 IF camera # 1
                 THEN <<LogLine("WARNING", <<screenshot.file_name>>),
                        LogLine("FOUND MULTIPLE CAMERAS WITH THE NAME", <<screenshot.camera_name>>)>>
                 ELSE <<>>
         IN  IF cae_group = 0
             THEN CheckOutcome("ValueError",
                      log \o <<LogLine("Error in input", <<screenshot.file_name>>),
                               LogLine("Group with name not found", <<screenshot.group_name>>)>>)
             ELSE IF screenshot.template_name \notin Templates
             THEN CheckOutcome("ValueError",
                      log \o group_warning
                          \o <<LogLine("Error in input", <<screenshot.file_name>>),
                               LogLine("Template with name could not be found",
                                       <<screenshot.component_name>>)>>)
             ELSE IF camera = 0
             THEN CheckOutcome("ValueError",
                      log \o group_warning
                          \o <<LogLine("Error in input", <<screenshot.file_name>>),
                               LogLine("Camera with name not found", <<screenshot.camera_name>>)>>)
             ELSE check_each_screenshot(Tail(screenshots), groups,
                                        log \o group_warning \o camera_warning)

\* the component test compares the attribute names with the group name inside
\* a try block that cannot raise, so it rejects nothing
check_screenshots(screenshots, work, groups) ==
    IF ~is_sim_part(work) THEN CheckOutcome("ValueError", <<>>)
    ELSE IF check_post_input(screenshots) # "" THEN CheckOutcome("ValueError", <<>>)
    ELSE check_each_screenshot(screenshots, groups, <<>>)

temp_suffix ==
    <<"_","s","c","r","e","e","n","s","h","o","t","_","g","e","n","e","r","a","t","o","r",
      "_","t","e","m","p">>

OutputGroup == <<"O","U","T","P","U","T"," ","G","R","O","U","P">>

in_list(name, names) == \E k \in DOMAIN names : names[k] = name

\* the groups of the snapshot sim_groups[i..] that get a copy
RECURSIVE copies_of(_, _, _)
copies_of(sim_groups, i, groups_in_screenshots) ==
    IF i > Len(sim_groups) THEN <<>>
    ELSE LET group == sim_groups[i]
             skip == \/ ~in_list(group.Name, groups_in_screenshots)
                     \/ group.OwningComponent = "None"
                     \/ group.Name = OutputGroup
                     \/ in_list(group.Name \o temp_suffix, group_names(sim_groups))
                     \/ group.entities = 0
         IN  (IF skip THEN <<>>
              ELSE <<Group(group.Name \o temp_suffix, "None", group.entities)>>)
                 \o copies_of(sim_groups, i + 1, groups_in_screenshots)

\* preprocessing.copy_groups_to_sim_part: the groups of the part after the
\* call and the groups created
copy_groups_to_sim_part(groups, groups_in_screenshots) ==
    LET copied_groups == copies_of(groups, 1, groups_in_screenshots)
    IN  [groups |-> groups \o copied_groups, copied_groups |-> copied_groups]

\* the groups the post processor shows by name: groups of the simulation part
\* itself that hold nodes or elements
PostviewGetUserGroupGids(group_name, groups) ==
    { k \in DOMAIN groups : /\ groups[k].Name = group_name
                            /\ groups[k].OwningComponent = "None"
                            /\ groups[k].entities > 0 }

display_result(post_input, component_name) ==
    LET result_type == get_result_types(<<post_input>>) IN
    IF result_type # "" THEN result_type
    ELSE IF component_name \notin ComponentNames THEN "AttributeError"
    ELSE ""

set_post_template(template_name) ==
    IF template_name \notin Templates THEN "NXException" ELSE ""

change_component(component_name) ==
    IF component_name \notin ComponentNames THEN "AttributeError" ELSE ""

display_elements_in_group_using_workaround(group_name, groups) ==
    IF PostviewGetUserGroupGids(group_name, groups) # {} THEN CheckOutcome("", <<>>)
    ELSE IF PostviewGetUserGroupGids(group_name \o temp_suffix, groups) # {}
    THEN CheckOutcome("", <<>>)
    ELSE CheckOutcome("ValueError",
                      <<LogLine("Error: Group not found in the sim file.",
                                <<group_name \o temp_suffix>>)>>)

set_camera(camera_name) ==
    IF first_match(Cameras, camera_name) = 0 THEN "IndexError" ELSE ""

isdigit(s) == s # <<>> /\ \A k \in DOMAIN s : s[k] \in DigitSet

startswith(s, prefix) == Len(s) >= Len(prefix) /\ SubSeq(s, 1, Len(prefix)) = prefix

RECURSIVE without_post_groups(_)
without_post_groups(groups) ==
    IF groups = <<>> THEN <<>>
    ELSE LET item == Head(groups) IN
         (IF startswith(item.Name, <<"P","o","s","t","G","r","o","u","p">>)
             /\ isdigit(SubSeq(item.Name, 10, Len(item.Name)))
          THEN <<>> ELSE <<item>>) \o without_post_groups(Tail(groups))

delete_post_groups(groups) ==
    LET kept == without_post_groups(groups) IN
    [groups |-> kept,
     log |-> IF kept # groups
             THEN <<LogLine("Removed automatically created PostGroups", <<>>)>> ELSE <<>>]

\* the variant that deletes only the groups named exactly like the suffix
RECURSIVE delete_groups_named_temp(_)
delete_groups_named_temp(groups) ==
    IF groups = <<>> THEN <<>>
    ELSE (IF Head(groups).Name = temp_suffix THEN <<>> ELSE <<Head(groups)>>)
             \o delete_groups_named_temp(Tail(groups))

\* create_screen_shots, the end of the run: every group whose name ends with
\* the suffix is deleted
RECURSIVE delete_copied_groups(_)
delete_copied_groups(groups) ==
    IF groups = <<>> THEN <<>>
    ELSE (IF endswith(Head(groups).Name, temp_suffix) THEN <<>> ELSE <<Head(groups)>>)
             \o delete_copied_groups(Tail(groups))

\* a journal ending without the banner
no_message == <<>>

\* print_message: the lines of the attribution banner
print_message ==
    <<
      LogLine("##################################################################################################", <<>>),
      LogLine("##################################################################################################", <<>>),
      LogLine("##################################################################################################", <<>>),
      LogLine("THE SOFTWARE IS PROVIDED 'AS IS', WITHOUT WARRANTY OF ANY KIND, EXPRESS OR", <<>>),
      LogLine("IMPLIED, INCLUDING BUT NOT LIMITED TO THE WARRANTIES OF MERCHANTABILITY,", <<>>),
      LogLine("FITNESS FOR A PARTICULAR PURPOSE AND NONINFRINGEMENT. IN NO EVENT SHALL THE", <<>>),
      LogLine("AUTHORS OR COPYRIGHT HOLDERS BE LIABLE FOR ANY CLAIM, DAMAGES OR OTHER", <<>>),
      LogLine("LIABILITY, WHETHER IN AN ACTION OF CONTRACT, TORT OR OTHERWISE, ARISING FROM,", <<>>),
      LogLine("OUT OF OR IN CONNECTION WITH THE SOFTWARE OR THE USE OR OTHER DEALINGS IN THE", <<>>),
      LogLine("SOFTWARE.", <<>>),
      LogLine("##################################################################################################", <<>>),
      LogLine("##################################################################################################", <<>>),
      LogLine("##################################################################################################", <<>>),
      LogLine("                        You have just experienced the power of scripting                          ", <<>>),
      LogLine("                             brought to you by theScriptingEngineer                               ", <<>>),
      LogLine("                                   www.theScriptingEngineer.com                                   ", <<>>),
      LogLine("                                  More journals can be found at:                                  ", <<>>),
      LogLine("                        https://github.com/theScriptingEngineer/nxopentse                        ", <<>>),
      LogLine("##################################################################################################", <<>>),
      LogLine("##################################################################################################", <<>>),
      LogLine("##################################################################################################", <<>>),
      LogLine("                                          Learn NXOpen at                                         ", <<>>),
      LogLine("https://www.udemy.com/course/simcenter3d-basic-nxopen-course/?referralCode=4ABC27CFD7D2C57D220B%20", <<>>),
      LogLine("https://www.udemy.com/course/siemens-nx-beginner-nxopen-course-python/?referralCode=DEE8FAB445765802FEDC", <<>>),
      LogLine("##################################################################################################", <<>>),
      LogLine("##################################################################################################", <<>>),
      LogLine("##################################################################################################", <<>>)
    >>

\* a pass of the loop that got past the display of the result: the screenshot
\* and whether display_result made a view for it
ViewUse(screenshot, created) == [screenshot |-> screenshot, created |-> created]

ItemOutcome(error, log, fs, views) ==
    [error |-> error, log |-> log, files |-> fs, views |-> views]

\* str(screenshots[i])
repr(screenshot) ==
    LogLine("ScreenShot",
            <<screenshot.file_name, screenshot.annotation_text, screenshot.template_name,
              screenshot.group_name, screenshot.component_name, screenshot.camera_name>>)

\* one pass of the loop over the screenshots, from the outcomes of its calls:
\* "" or the exception that leaves the pass, what it logged and the files
\* after it
pass_outcome(log, displayed, template, component, shown, camera, saved, fs, view) ==
    IF displayed # "" THEN ItemOutcome(displayed, log, fs, <<>>)
    ELSE IF template # "" THEN ItemOutcome(template, log, fs, <<view>>)
    ELSE IF component # "" THEN ItemOutcome(component, log, fs, <<view>>)
    ELSE IF shown.error # "" THEN ItemOutcome(shown.error, log \o shown.log, fs, <<view>>)
    ELSE IF camera # "" THEN ItemOutcome(camera, log, fs, <<view>>)
    ELSE IF saved.outcome = "raised" THEN ItemOutcome(saved.error, log, fs, <<view>>)
    ELSE ItemOutcome("", log \o saved.log, saved.files, <<view>>)

\* the result is displayed for the first screenshot and when it changes
process_screenshot(screenshot, display, work, groups, fs, host_appends, host_overwrites) ==
    pass_outcome(<<repr(screenshot)>>,
                 IF display THEN display_result(screenshot, screenshot.component_name) ELSE "",
                 set_post_template(screenshot.template_name),
                 change_component(screenshot.component_name),
                 display_elements_in_group_using_workaround(screenshot.group_name, groups),
                 set_camera(screenshot.camera_name),
                 save_view_to_file(screenshot.file_name, work, fs, host_appends, host_overwrites),
                 fs, ViewUse(screenshot, display))

RECURSIVE process_screenshots(_, _, _, _, _, _, _, _, _)
next_screenshot(item, screenshots, i, work, groups, fs, log, views, host_appends, host_overwrites) ==
    IF item.error # "" THEN ItemOutcome(item.error, log \o item.log, fs, views \o item.views)
    ELSE process_screenshots(screenshots, i + 1, work, groups, item.files, log \o item.log,
                             views \o item.views, host_appends, host_overwrites)

process_screenshots(screenshots, i, work, groups, fs, log, views, host_appends, host_overwrites) ==
    IF i > Len(screenshots) THEN ItemOutcome("", log, fs, views)
    ELSE next_screenshot(
             process_screenshot(screenshots[i],
                                IF i = 1 THEN TRUE
                                ELSE need_change_result(screenshots[i], screenshots[i - 1]),
                                work, groups, fs, host_appends, host_overwrites),
             screenshots, i, work, groups, fs, log, views, host_appends, host_overwrites)

\* the loop over the selected files: extend(None) for a file without
\* definitions is a TypeError caught like a parse error
RECURSIVE read_selected_files(_, _, _)
extend(parsed, file_paths, fs, screenshots) ==
    IF parsed.error # ""
    THEN ReadOutcome(parsed.error,
                     parsed.log \o <<LogLine("Failed to parse file", <<Head(file_paths)>>),
                                     LogLine(parsed.error, <<>>)>>, <<>>, FALSE)
    ELSE IF parsed.is_none
    THEN ReadOutcome("TypeError",
                     <<LogLine("Failed to parse file", <<Head(file_paths)>>),
                       LogLine("TypeError", <<>>)>>, <<>>, FALSE)
    ELSE read_selected_files(Tail(file_paths), fs, screenshots \o parsed.screenshots)

read_selected_files(file_paths, fs, screenshots) ==
    IF file_paths = <<>> THEN ReadOutcome("", <<>>, screenshots, FALSE)
    ELSE extend(read_screenshot_definitions(Head(file_paths), fs), file_paths, fs, screenshots)

\* what filedialog.askopenfilenames returns: '' (kind "str") or a tuple of paths
Selection(kind, paths) == [kind |-> kind, paths |-> paths]

ShotsOutcome(outcome, error, stage, log, groups, fs, copied) ==
    [outcome |-> outcome, error |-> error, stage |-> stage, log |-> log,
     groups |-> groups, files |-> fs, copied |-> copied, views |-> <<>>]

\* create_screen_shots, the end of the run: the cleanup and the banner
end_of_run(items, post, copied) ==
    [ShotsOutcome("returned", "", "done", items.log \o post.log \o print_message,
                  delete_copied_groups(post.groups), items.files, copied)
        EXCEPT !.views = items.views]

\* create_screen_shots from the loading of the results on
load_and_process(loaded, items, groups, fs, copied) ==
    IF loaded # "" THEN ShotsOutcome("raised", loaded, "load", <<>>, groups, fs, copied)
    ELSE IF items.error # ""
    THEN [ShotsOutcome("raised", items.error, "item", items.log, groups, fs, copied)
             EXCEPT !.views = items.views]
    ELSE end_of_run(items, delete_post_groups(groups), copied)

\* create_screen_shots from the sorting on
sort_and_process(screenshots, copy, work, fs, host_appends, host_overwrites) ==
    load_and_process(
        load_results(screenshots, work),
        process_screenshots(screenshots, 1, work, copy.groups, fs,
                            <<LogLine("Generated screenshots with the following input:",
                                      <<Len(screenshots)>>)>>,
                            <<>>, host_appends, host_overwrites),
        copy.groups, fs,
        { copy.copied_groups[k].Name : k \in DOMAIN copy.copied_groups })

\* create_screen_shots from the copy of the groups on
copy_and_process(screenshots, work, groups, fs, host_appends, host_overwrites) ==
    sort_and_process(
        sort_screenshots(screenshots),
        copy_groups_to_sim_part(groups,
                                [k \in DOMAIN screenshots |-> screenshots[k].group_name]),
        work, fs, host_appends, host_overwrites)

\* create_screen_shots from the check of the definitions on
check_and_process(checked, screenshots, work, groups, fs, host_appends, host_overwrites) ==
    IF checked.error # ""
    THEN ShotsOutcome("returned", "", "check",
             checked.log
                 \o <<LogLine("The following error occured while checking the screenshot definitions:", <<>>),
                      LogLine(checked.error, <<>>)>>,
             groups, fs, {})
    ELSE copy_and_process(screenshots, work, groups, fs, host_appends, host_overwrites)

\* create_screen_shots once the files are read
read_and_process(read, file_paths, work, groups, fs, host_appends, host_overwrites) ==
    IF read.error # ""
    THEN ShotsOutcome("returned", "", "parse", read.log, groups, fs, {})
    ELSE IF Len(read.screenshots) = 0
    THEN ShotsOutcome("returned", "", "empty",
                      <<LogLine("The file(s) is empty.", <<file_paths.paths>>)>>, groups, fs, {})
    ELSE check_and_process(check_screenshots(read.screenshots, work, groups), read.screenshots,
                           work, groups, fs, host_appends, host_overwrites)

create_screen_shots(file_paths, work, groups, fs, host_appends, host_overwrites) ==
    IF isinstance(Instance(work), Class("SimPart")) # "True"
    THEN ShotsOutcome("returned", "", "not sim",
             <<LogLine("ScreenshotGenerator needs to be started from a .sim file!", <<>>)>>,
             groups, fs, {})
    ELSE IF file_paths.kind = "str"
    THEN ShotsOutcome("returned", "", "cancelled", <<>>, groups, fs, {})
    ELSE read_and_process(read_selected_files(file_paths.paths, fs, <<>>), file_paths,
                          work, groups, fs, host_appends, host_overwrites)

\* the groups the simulation part shows: one of its own, one of the fem with
\* elements, one of the fem without, and a post group left by the host
HostGroups ==
    << Group(<<"g">>, "None", 1), Group(<<"f">>, "fem", 1), Group(<<"e">>, "fem", 0),
       Group(<<"P","o","s","t","G","r","o","u","p","1">>, "None", 1) >>

ShotLine(group_name, solution, component_name) ==
    CsvLine(<<"s">>, <<"t">>, group_name, <<"c">>, solution, <<"1">>, component_name)

\* lines a user writes: shots of the three groups, a shot of another
\* component, a shot with a component that does not exist, of a solution without results, of a group that does
\* not exist, a line with too few fields and a blank line
ShotLines ==
    { ShotLine(<<"g">>, <<"s","a">>, <<"X">>),
      ShotLine(<<"f">>, <<" ","S","A">>, <<"X">>),
      ShotLine(<<"e">>, <<"s","a">>, <<"X">>),
      ShotLine(<<"f">>, <<"s","a">>, <<"Y">>),
      ShotLine(<<"f">>, <<"s","a">>, <<"Q">>),
      ShotLine(<<"f">>, <<"s","b">>, <<"X">>),
      ShotLine(<<"z">>, <<"s","a">>, <<"X">>),
      <<"a",",","b">>,
      <<>> }

MaxShotLines == 2

Selections ==
    { Selection("str", <<>>), Selection("tuple", <<>>), Selection("tuple", <<CsvPath>>) }

(***************************************************************************)
(* Journal generating screenshots: the user writes the definitions file    *)
(* and runs the generator                                                  *)
(***************************************************************************)
InitShots ==
    /\ workPart \in {"plate.sim", "plate.fem"}
    /\ basePart = workPart
    /\ cwd = StartDirectory
    /\ expressions = [p \in Parts |-> <<>>]
    /\ companionResults = [s \in DOMAIN SimSolutions |-> <<>>]
    /\ caeGroups = HostGroups
    /\ files = NoFiles
    /\ feModel = NoModel
    /\ postInputs = <<>>
    /\ call = NoCall

\* the user adds a definition to the file
UserAppendsDefinition ==
    /\ LET content == IF exists(CsvPath, files) THEN files[CsvPath] ELSE <<>> IN
          /\ NumberOfLines(content) < MaxShotLines
          /\ \E text \in ShotLines : files' = write_file(CsvPath, content \o text \o <<"\n">>, files)
    /\ call' = NoCall
    /\ UNCHANGED <<workPart, basePart, cwd, expressions, companionResults, caeGroups, feModel,
                   postInputs>>

ShotsCall(file_paths, r) ==
    /\ caeGroups' = r.groups
    /\ files' = r.files
    /\ call' = [op |-> "create_screen_shots", file_paths |-> file_paths,
                outcome |-> r.outcome, error |-> r.error, stage |-> r.stage,
                log |-> r.log, copied |-> r.copied, views |-> r.views, before |-> caeGroups]
    /\ UNCHANGED <<workPart, basePart, cwd, expressions, companionResults, feModel, postInputs>>

CreateScreenShots ==
    \E file_paths \in Selections, host_appends \in BOOLEAN, host_overwrites \in BOOLEAN :
        ShotsCall(file_paths,
                  create_screen_shots(file_paths, workPart, caeGroups, files,
                                      host_appends, host_overwrites))

NextShots ==
    \/ UserAppendsDefinition
    \/ UserDeletesDefinitions
    \/ CreateScreenShots

SpecShots == InitShots /\ [][NextShots]_vars

(***************************************************************************)
(* solving: solve_dat_file runs the solver executable on an input deck     *)
(***************************************************************************)
\* the directories of the machine
Directories == { <<"/","m">>, <<"/","w">> }

\* what subprocess.run([UGII_NX_NASTRAN, full_dat_file]) does: without
\* check=True a non-zero return code is returned, not raised; an executable
\* that cannot be started raises FileNotFoundError
subprocess_run(executable) ==
    CASE executable = "runs"    -> [error |-> "", returncode |-> 0]
      [] executable = "fails"   -> [error |-> "", returncode |-> 1]
      [] executable = "missing" -> [error |-> "FileNotFoundError", returncode |-> -1]

\* the outcome of a call of solve_dat_file and the working directory after it
DatOutcome(outcome, error, log, directory) ==
    [outcome |-> outcome, error |-> error, log |-> log, cwd |-> directory]

\* solve_dat_file from os.getcwd() on
solve_in_directory(full_dat_file, result, log, directory) ==
    IF dirname(full_dat_file) \notin Directories
    THEN DatOutcome("raised", "FileNotFoundError", log, directory)
    ELSE IF result.error # ""
    THEN DatOutcome("raised", result.error, log, dirname(full_dat_file))
    ELSE DatOutcome("returned", "", log \o <<LogLine("CompletedProcess", <<result.returncode>>)>>,
                    directory)

solve_dat(full, result, log, directory) ==
    IF full.error # "" THEN DatOutcome("raised", full.error, log, directory)
    ELSE solve_in_directory(full.path, result, log, directory)

solve_dat_file(dat_file, work, executable, directory) ==
    solve_dat(create_full_path(dat_file, <<".","d","a","t">>, work),
              subprocess_run(executable),
              <<LogLine("UGII_NX_NASTRAN", <<executable>>)>>,
              directory)

\* input decks a journal names: without and with folder and extension, and
\* one in a folder that does not exist
DatFiles ==
    { <<"a">>, <<"a",".","b","d","f">>, <<"/","m","/","a",".","d","a","t">>,
      <<"/","w","/","a">>, <<"/","x","/","a",".","d","a","t">> }

Executables == {"runs", "fails", "missing"}

InitDat ==
    /\ workPart \in {"plate.sim", "none"}
    /\ basePart = workPart
    /\ cwd = StartDirectory
    /\ expressions = [p \in Parts |-> <<>>]
    /\ companionResults = [s \in DOMAIN SimSolutions |-> <<>>]
    /\ caeGroups = <<>>
    /\ files = NoFiles
    /\ feModel = NoModel
    /\ postInputs = <<>>
    /\ call = NoCall

\* the journal or the user moves to another directory
ChangeDirectory ==
    /\ \E directory \in Directories \ {cwd} : cwd' = directory
    /\ call' = NoCall
    /\ UNCHANGED <<workPart, basePart, expressions, companionResults, caeGroups, files, feModel,
                   postInputs>>

\* the user opens another part, or closes the parts
OpenPart ==
    /\ \E part \in {"plate.sim", "plate.fem", "none"} \ {workPart} : workPart' = part
    /\ call' = NoCall
    /\ UNCHANGED <<basePart, cwd, expressions, companionResults, caeGroups, files, feModel,
                   postInputs>>

DatCall(dat_file, executable, r) ==
    /\ cwd' = r.cwd
    /\ call' = [op |-> "solve_dat_file", dat_file |-> dat_file, executable |-> executable,
                outcome |-> r.outcome, error |-> r.error, log |-> r.log, before |-> cwd]
    /\ UNCHANGED <<workPart, basePart, expressions, companionResults, caeGroups, files, feModel,
                   postInputs>>

SolveDatFile ==
    \E dat_file \in DatFiles, executable \in Executables :
        DatCall(dat_file, executable, solve_dat_file(dat_file, workPart, executable, cwd))

NextDat == ChangeDirectory \/ OpenPart \/ SolveDatFile

SpecDat == InitDat /\ [][NextDat]_vars

(***************************************************************************)
(* preprocessing: create_nodal_constraint on the simulation                *)
(***************************************************************************)
\* str() of a float with one decimal, negative values included
str_signed(tenths) ==
    IF tenths < 0 THEN <<"-">> \o str_float(0 - tenths) ELSE str_float(tenths)

\* the value of a free degree of freedom, -777777, in tenths
Free == 0 - 7777770

\* a constraint of the simulation: its name, the node it is on and the six
\* expressions of its property table
Constraint(name, node, dofs) == [Name |-> name, node |-> node, dofs |-> dofs]

constraint_names(model) == [k \in DOMAIN model.constraints |-> model.constraints[k].Name]

\* the six EditFieldExpression(str(value), ...) calls
field_expressions(values) == [k \in DOMAIN values |-> str_signed(values[k])]

\* the outcome of a call on the simulation: what it returned (0 for None, or
\* the index of the object), the exception, the log and the simulation after
SimOutcome(outcome, error, returns, log, model) ==
    [outcome |-> outcome, error |-> error, returns |-> returns, log |-> log, model |-> model]

\* a commit that does not look the node up
commit_without_node_check(target, node_label, values, constraint_name, log, model) ==
    IF target = 0
    THEN SimOutcome("returned", "", Len(model.constraints) + 1, log,
             [model EXCEPT !.constraints =
                 Append(@, Constraint(constraint_name, node_label, field_expressions(values)))])
    ELSE SimOutcome("returned", "", target, log,
             [model EXCEPT !.constraints[target] =
                 Constraint(@.Name, node_label, field_expressions(values))])

\* create_nodal_constraint once the builder exists: target is 0 for a new
\* constraint and the index of the constraint under edit otherwise. The
\* builder changes the simulation when CommitAddBc is called, not before.
commit_constraint(target, node_label, values, constraint_name, log, model) ==
    IF node_label \notin model.nodes
    THEN SimOutcome("returned", "", 0,
                    log \o <<LogLine("CreateConstraint: node with label not found in the model. Constaint not created.",
                                     <<str_int(node_label)>>)>>,
                    model)
    ELSE IF target = 0
    THEN SimOutcome("returned", "", Len(model.constraints) + 1, log,
             [model EXCEPT !.constraints =
                 Append(@, Constraint(constraint_name, node_label, field_expressions(values)))])
    ELSE SimOutcome("returned", "", target, log,
             [model EXCEPT !.constraints[target] =
                 Constraint(@.Name, node_label, field_expressions(values))])

\* a resolution of the name that edits the first of several matches
constraint_by_first_match(sim_constraint, target, node_label, values, constraint_name, model) ==
    IF sim_constraint = 0
    THEN commit_constraint(0, node_label, values, constraint_name, <<>>, model)
    ELSE commit_constraint(target, node_label, values, constraint_name, <<>>, model)

\* create_nodal_constraint in a simulation part
constraint_by_name(sim_constraint, target, node_label, values, constraint_name, model) ==
    IF sim_constraint = 0
    THEN commit_constraint(0, node_label, values, constraint_name, <<>>, model)
    ELSE IF sim_constraint = 1
    THEN commit_constraint(target, node_label, values, constraint_name,
             <<LogLine("A constraint with the name already exists therefore editing the constraint.",
                       <<constraint_name>>)>>,
             model)
    ELSE SimOutcome("raised", "ValueError", 0,
             <<LogLine("Multiple constraints with the name exist. This function requires unique names and is not case sensitive.",
                       <<constraint_name>>)>>,
             model)

create_nodal_constraint(node_label, values, constraint_name, work, model) ==
    IF isinstance(Instance(work), Class("SimPart")) # "True"
    THEN SimOutcome("returned", "", 0,
             <<LogLine("CreateConstraint needs to start from a .sim file. Exiting", <<>>)>>, model)
    ELSE constraint_by_name(count_matches(constraint_names(model), constraint_name),
                            first_match(constraint_names(model), constraint_name),
                            node_label, values, constraint_name,
                            [model EXCEPT !.activeSolution = 0])

\* the simulation of the plate: two nodes, no constraint, the first solution
\* active
PlateSimulation == [nodes |-> {1, 2}, constraints |-> <<>>, activeSolution |-> 1]

MaxConstraints == 3

\* names of constraints: two that differ in case only, and another
ConstraintNames == { <<"F","i","x">>, <<"f","i","x">>, <<"P","i","n">> }

\* labels a journal passes: a node of the model and one that is not
NodeLabels == {1, 9}

\* values of the six degrees of freedom a journal passes
DofValues == { <<0, 0, 0, Free, Free, Free>>, <<15, 0, 0, 0, 0, 0>> }

InitConstraint ==
    /\ workPart \in {"plate.sim", "plate.fem"}
    /\ basePart = workPart
    /\ cwd = StartDirectory
    /\ expressions = [p \in Parts |-> <<>>]
    /\ companionResults = [s \in DOMAIN SimSolutions |-> <<>>]
    /\ caeGroups = <<>>
    /\ files = NoFiles
    /\ feModel = PlateSimulation
    /\ postInputs = <<>>
    /\ call = NoCall

\* the user makes a constraint in the host, which accepts any name, also
\* one that differs from an existing name in case only, or activates a
\* solution
UserCreatesConstraint ==
    /\ Len(feModel.constraints) < MaxConstraints
    /\ \E name \in {<<"F","i","x">>, <<"f","i","x">>} :
          feModel' = [feModel EXCEPT !.constraints =
                         Append(@, Constraint(name, 2, field_expressions(<<0, 0, 0, 0, 0, 0>>))),
                                     !.activeSolution = 1]
    /\ call' = NoCall
    /\ UNCHANGED <<workPart, basePart, cwd, expressions, companionResults, caeGroups, files,
                   postInputs>>

SimCall(op, args, r) ==
    /\ feModel' = r.model
    /\ call' = [op |-> op, args |-> args, work |-> workPart, outcome |-> r.outcome,
                error |-> r.error, returns |-> r.returns, log |-> r.log, before |-> feModel]
    /\ UNCHANGED <<workPart, basePart, cwd, expressions, companionResults, caeGroups, files,
                   postInputs>>

CreateNodalConstraint ==
    /\ Len(feModel.constraints) < MaxConstraints
    /\ \E node_label \in NodeLabels, values \in DofValues, constraint_name \in ConstraintNames :
          SimCall("create_nodal_constraint", <<node_label, values, constraint_name>>,
                  create_nodal_constraint(node_label, values, constraint_name, workPart, feModel))

NextConstraint == ChangeWorkPart \/ UserCreatesConstraint \/ CreateNodalConstraint

SpecConstraint == InitConstraint /\ [][NextConstraint]_vars

(***************************************************************************)
(* preprocessing: solver sets, and adding loads, constraints and solver    *)
(* sets to solutions, subcases and solver sets                             *)
(***************************************************************************)
\* a solver set (SimLoadSet) and the loads in it
LoadSet(name, members) == [Name |-> name, members |-> members]

\* a subcase (SimSolutionStep): the loads and constraints added to it, as
\* <<kind, index>>, and the solver sets in its load group
Step(name, bcs, loadSets) == [Name |-> name, bcs |-> bcs, loadSets |-> loadSets]

load_set_names(model) == [k \in DOMAIN model.loadSets |-> model.loadSets[k].Name]

\* a lookup that finds something whatever the name
any_step(model, sim_solution, subcase_name) == 1

\* the loop over GetStepByIndex: the last subcase of the solution with the
\* name, ignoring case, 0 for None
get_step(model, sim_solution, subcase_name) ==
    LET steps == model.steps[sim_solution]
        hits == { i \in DOMAIN steps : lower(steps[i].Name) = lower(subcase_name) }
    IN  IF hits = {} THEN 0 ELSE CHOOSE i \in hits : \A j \in hits : j <= i

\* a solver set is made whether or not one has the name
new_solver_set_always(sim_load_sets, solver_set_name, model) ==
    SimOutcome("returned", "", Len(model.loadSets) + 1, <<>>,
               [model EXCEPT !.loadSets = Append(@, LoadSet(solver_set_name, {}))])

\* create_solver_set in a simulation part, sim_load_sets the number of
\* solver sets with the name
new_solver_set(sim_load_sets, solver_set_name, model) ==
    IF sim_load_sets # 0
    THEN SimOutcome("returned", "", 0,
             <<LogLine("CreateSolverSet: solver set with name already exists!",
                       <<solver_set_name>>)>>, model)
    ELSE SimOutcome("returned", "", Len(model.loadSets) + 1, <<>>,
                    [model EXCEPT !.loadSets = Append(@, LoadSet(solver_set_name, {}))])

create_solver_set(solver_set_name, work, model) ==
    IF isinstance(Instance(work), Class("SimPart")) # "True"
    THEN SimOutcome("returned", "", 0,
             <<LogLine("CreateSolverSet needs to start from a .sim file. Exiting", <<>>)>>, model)
    ELSE new_solver_set(count_matches(load_set_names(model), solver_set_name),
                        solver_set_name, model)

\* a call that logs one line and returns
logs_and_returns(text, args, model) ==
    SimOutcome("returned", "", 0, <<LogLine(text, args)>>, model)

add_load_to_solver_set(solver_set_name, load_name, work, model) ==
    LET sim_load_set == first_match(load_set_names(model), solver_set_name)
        sim_load == first_match(model.loads, load_name)
    IN  IF isinstance(Instance(work), Class("SimPart")) # "True"
        THEN logs_and_returns("AddLoadToSolverSet needs to start from a .sim file. Exiting",
                              <<>>, model)
        ELSE IF sim_load_set = 0
        THEN logs_and_returns("AddLoadToSolverSet: solver set with name not found!",
                              <<solver_set_name>>, model)
        ELSE IF sim_load = 0
        THEN logs_and_returns("AddLoadToSolverSet: Load with name not found!",
                              <<load_name>>, model)
        ELSE SimOutcome("returned", "", 0, <<>>,
                 [model EXCEPT !.loadSets[sim_load_set].members = @ \cup {sim_load}])

\* the three add-to-subcase calls after the work part is known to be a
\* simulation: found is the index of the load, constraint or solver set
add_to_step(name, sim_solution, sim_solution_step, found, args, added) ==
    IF sim_solution = 0
    THEN logs_and_returns("Solution with name not found!", <<name, args[1]>>, added.before)
    ELSE IF sim_solution_step = 0
    THEN logs_and_returns("subcase with name not found in solution!",
                          <<name, args[2], args[1]>>, added.before)
    ELSE IF found = 0
    THEN logs_and_returns("with name not found!", <<name, args[3]>>, added.before)
    ELSE SimOutcome("returned", "", 0, <<>>, added.after)

add_solver_set_to_subcase(solution_name, subcase_name, solver_set_name, work, model) ==
    LET sim_solution == get_solution(work, solution_name)
        sim_solution_step == IF sim_solution = 0 THEN 0
                             ELSE get_step(model, sim_solution, subcase_name)
        sim_load_set == first_match(load_set_names(model), solver_set_name)
    IN  IF isinstance(Instance(work), Class("SimPart")) # "True"
        THEN logs_and_returns("AddSolverSetToSubcase needs to start from a .sim file. Exiting",
                              <<>>, model)
        ELSE add_to_step("AddSolverSetToSubcase", sim_solution, sim_solution_step, sim_load_set,
                 <<solution_name, subcase_name, solver_set_name>>,
                 [before |-> model,
                  after |-> IF sim_solution = 0 \/ sim_solution_step = 0 \/ sim_load_set = 0
                            THEN model
                            ELSE [model EXCEPT
                                    !.steps[sim_solution][sim_solution_step].loadSets =
                                        @ \cup {sim_load_set}]])

add_load_to_subcase(solution_name, subcase_name, load_name, work, model) ==
    LET sim_solution == get_solution(work, solution_name)
        sim_solution_step == IF sim_solution = 0 THEN 0
                             ELSE get_step(model, sim_solution, subcase_name)
        sim_load == first_match(model.loads, load_name)
    IN  IF isinstance(Instance(work), Class("SimPart")) # "True"
        THEN logs_and_returns("add_load_to_subcase needs to start from a .sim file. Exiting",
                              <<>>, model)
        ELSE add_to_step("add_load_to_subcase", sim_solution, sim_solution_step, sim_load,
                 <<solution_name, subcase_name, load_name>>,
                 [before |-> model,
                  after |-> IF sim_solution = 0 \/ sim_solution_step = 0 \/ sim_load = 0
                            THEN model
                            ELSE [model EXCEPT
                                    !.steps[sim_solution][sim_solution_step].bcs =
                                        @ \cup {<<"load", sim_load>>}]])

add_constraint_to_subcase(solution_name, subcase_name, constraint_name, work, model) ==
    LET sim_solution == get_solution(work, solution_name)
        sim_solution_step == IF sim_solution = 0 THEN 0
                             ELSE get_step(model, sim_solution, subcase_name)
        sim_constraint == first_match(constraint_names(model), constraint_name)
    IN  IF isinstance(Instance(work), Class("SimPart")) # "True"
        THEN logs_and_returns("add_constraint_to_subcase needs to start from a .sim file. Exiting",
                              <<>>, model)
        ELSE add_to_step("add_constraint_to_subcase", sim_solution, sim_solution_step,
                 sim_constraint, <<solution_name, subcase_name, constraint_name>>,
                 [before |-> model,
                  after |-> IF sim_solution = 0 \/ sim_solution_step = 0 \/ sim_constraint = 0
                            THEN model
                            ELSE [model EXCEPT
                                    !.steps[sim_solution][sim_solution_step].bcs =
                                        @ \cup {<<"constraint", sim_constraint>>}]])

add_constraint_to_solution(solution_name, constraint_name, work, model) ==
    LET sim_solution == get_solution(work, solution_name)
        sim_constraint == first_match(constraint_names(model), constraint_name)
    IN  IF isinstance(Instance(work), Class("SimPart")) # "True"
        THEN logs_and_returns("AddConstraintToSolution needs to start from a .sim file. Exiting",
                              <<>>, model)
        ELSE IF sim_solution = 0
        THEN logs_and_returns("AddConstraintToSolution: Solution with name not found!",
                              <<solution_name>>, model)
        ELSE IF sim_constraint = 0
        THEN logs_and_returns("AddConstraintToSolution: constraint with name not found!",
                              <<constraint_name>>, model)
        ELSE SimOutcome("returned", "", 0, <<>>,
                 [model EXCEPT !.solutionBcs[sim_solution] = @ \cup {sim_constraint}])

\* the simulation of the plate with a load and a constraint: the first
\* solution has one subcase, the second none; no solver set yet
PlateLoadCases ==
    [loads |-> << <<"F","z">> >>,
     constraints |-> << Constraint(<<"F","i","x">>, 1, field_expressions(<<0, 0, 0, 0, 0, 0>>)) >>,
     loadSets |-> <<>>,
     steps |-> [s \in DOMAIN SimSolutions |->
                   IF s = 1 THEN << Step(<<"S","u","b","1">>, {}, {}) >> ELSE <<>>],
     solutionBcs |-> [s \in DOMAIN SimSolutions |-> {}]]

MaxSolverSets == 2

\* names a journal passes: each kind has one that resolves, in another case
\* than the object's, and one that does not
SolverSetNames == { <<"S","e","t","1">>, <<"S","E","T","1">> }
SolverSetArguments == { <<"s","e","t","1">>, <<"S","e","t","2">> }
SolutionArguments == { <<"s","a">>, <<"s","b">>, <<"S","x">> }
SubcaseNames == { <<"s","u","b","1">>, <<"s","u","b","9">> }
LoadNames == { <<"f","z">>, <<"F","y">> }
ConstraintArguments == { <<"F","I","X">>, <<"P","i","n">> }

InitCompose ==
    /\ workPart \in {"plate.sim", "plate.fem"}
    /\ basePart = workPart
    /\ cwd = StartDirectory
    /\ expressions = [p \in Parts |-> <<>>]
    /\ companionResults = [s \in DOMAIN SimSolutions |-> <<>>]
    /\ caeGroups = <<>>
    /\ files = NoFiles
    /\ feModel = PlateLoadCases
    /\ postInputs = <<>>
    /\ call = NoCall

\* the user goes from the simulation to the fem and back
SwitchWorkPart ==
    /\ workPart' = IF workPart = "plate.sim" THEN "plate.fem" ELSE "plate.sim"
    /\ call' = NoCall
    /\ UNCHANGED <<basePart, cwd, expressions, companionResults, caeGroups, files, feModel,
                   postInputs>>

CreateSolverSet ==
    /\ Len(feModel.loadSets) < MaxSolverSets
    /\ \E solver_set_name \in SolverSetNames :
          SimCall("create_solver_set", <<solver_set_name>>,
                  create_solver_set(solver_set_name, workPart, feModel))

AddLoadToSolverSet ==
    \E solver_set_name \in SolverSetArguments, load_name \in LoadNames :
        SimCall("add_load_to_solver_set", <<solver_set_name, load_name>>,
                add_load_to_solver_set(solver_set_name, load_name, workPart, feModel))

AddSolverSetToSubcase ==
    \E solution_name \in SolutionArguments, subcase_name \in SubcaseNames,
       solver_set_name \in SolverSetArguments :
        SimCall("add_solver_set_to_subcase", <<solution_name, subcase_name, solver_set_name>>,
                add_solver_set_to_subcase(solution_name, subcase_name, solver_set_name,
                                          workPart, feModel))

AddLoadToSubcase ==
    \E solution_name \in SolutionArguments, subcase_name \in SubcaseNames,
       load_name \in LoadNames :
        SimCall("add_load_to_subcase", <<solution_name, subcase_name, load_name>>,
                add_load_to_subcase(solution_name, subcase_name, load_name, workPart, feModel))

AddConstraintToSubcase ==
    \E solution_name \in SolutionArguments, subcase_name \in SubcaseNames,
       constraint_name \in ConstraintArguments :
        SimCall("add_constraint_to_subcase", <<solution_name, subcase_name, constraint_name>>,
                add_constraint_to_subcase(solution_name, subcase_name, constraint_name,
                                          workPart, feModel))

AddConstraintToSolution ==
    \E solution_name \in SolutionArguments, constraint_name \in ConstraintArguments :
        SimCall("add_constraint_to_solution", <<solution_name, constraint_name>>,
                add_constraint_to_solution(solution_name, constraint_name, workPart, feModel))

NextCompose ==
    \/ SwitchWorkPart
    \/ CreateSolverSet
    \/ AddLoadToSolverSet
    \/ AddSolverSetToSubcase
    \/ AddLoadToSubcase
    \/ AddConstraintToSubcase
    \/ AddConstraintToSolution

SpecCompose == InitCompose /\ [][NextCompose]_vars

(***************************************************************************)
(* postprocessing: write_submodel_data_to_file                             *)
(***************************************************************************)
\* an entity of a group: a node or an element, with its label
Entity(type, label) == [type |-> type, Label |-> label]

\* a group of the work part and the entities GetEntities() reports, in the
\* order the host reports them
NodeGroup(name, entities) == [Name |-> name, entities |-> entities]

\* insertion of a label into an ascending list of labels
RECURSIVE insert_label(_, _)
insert_label(label, labels) ==
    IF labels = <<>> THEN <<label>>
    ELSE IF label < Head(labels) THEN <<label>> \o labels
    ELSE IF label = Head(labels) THEN labels
    ELSE <<Head(labels)>> \o insert_label(label, Tail(labels))

\* dict(sorted(d.items())).keys() for a dictionary with the labels as keys
RECURSIVE sorted_keys(_)
sorted_keys(labels) ==
    IF labels = <<>> THEN <<>>
    ELSE insert_label(labels[Len(labels)], sorted_keys(SubSeq(labels, 1, Len(labels) - 1)))

\* the labels of the FENode entities, in the order of the entities
RECURSIVE node_labels(_)
node_labels(entities) ==
    IF entities = <<>> THEN <<>>
    ELSE IF Head(entities).type = "FENode"
    THEN <<Head(entities).Label>> \o node_labels(Tail(entities))
    ELSE node_labels(Tail(entities))

\* get_nodes_in_group: the exception, the log and the labels, ascending
NodesOutcome(error, log, labels) == [error |-> error, log |-> log, labels |-> labels]

get_nodes_in_group(group_name, groups) ==
    LET group == { k \in DOMAIN groups : lower(strip(groups[k].Name)) = lower(strip(group_name)) }
    IN  IF group = {}
        THEN NodesOutcome("ValueError", <<LogLine("Group with name not found.", <<group_name>>)>>, <<>>)
        ELSE IF Cardinality(group) # 1
        THEN NodesOutcome("ValueError",
                 <<LogLine("Multiple occurences found. Note that the names are case insensitive.",
                           <<group_name>>)>>, <<>>)
        ELSE NodesOutcome("", <<>>,
                 sorted_keys(node_labels(groups[CHOOSE k \in group : TRUE].entities)))

DisplacementNodal == <<"D","i","s","p","l","a","c","e","m","e","n","t"," ","-"," ","N","o","d","a","l">>

\* get_nodal_values: "" or the exception that leaves it
get_nodal_values(solution_name, subcase, iteration, result_type, work) ==
    IF load_results(<<PostInput(solution_name, subcase, iteration, result_type, <<>>)>>, work) # ""
    THEN load_results(<<PostInput(solution_name, subcase, iteration, result_type, <<>>)>>, work)
    ELSE get_result_types(<<PostInput(solution_name, subcase, iteration, result_type, <<>>)>>)

\* the plate: node n lies at (n, 0, 0), and moves by (n, s, 0) in subcase s
Coordinates3(label) == <<label, 0, 0>>
AskNodalResultAllComponents(label, subcase) == <<label, subcase, 0>>

\* f'{value:12.4e}' for the values 0..9
format_e(value) ==
    <<" ", " ", Digits[value + 1], ".", "0", "0", "0", "0", "e", "+", "0", "0">>

Separator == <<",", " ">>

\* one line of the file: three coordinates and three displacements
data_line(label, subcase) ==
    format_e(Coordinates3(label)[1]) \o Separator \o format_e(Coordinates3(label)[2])
       \o Separator \o format_e(Coordinates3(label)[3])
       \o Separator \o format_e(AskNodalResultAllComponents(label, subcase)[1])
       \o Separator \o format_e(AskNodalResultAllComponents(label, subcase)[2])
       \o Separator \o format_e(AskNodalResultAllComponents(label, subcase)[3]) \o <<"\n">>

HeaderLine ==
    <<" "," "," "," "," ","X"," ","C","o","o","r","d"," "," "," "," "," "," "," ","Y"," ","C",
    "o","o","r","d"," "," "," "," "," "," "," ","Z"," ","C","o","o","r","d"," "," "," "," "," ",
    " "," "," "," "," "," "," "," ","X"," "," "," "," "," "," "," "," "," "," "," "," "," ","Y",
    " "," "," "," "," "," "," "," "," "," "," "," "," ","Z">> \o <<"\n">>

RECURSIVE data_lines(_, _)
data_lines(labels, subcase) ==
    IF labels = <<>> THEN <<>>
    ELSE data_line(Head(labels), subcase) \o data_lines(Tail(labels), subcase)

\* the outcome of write_submodel_data_to_file: the files it opened, in order
SubmodelOutcome(outcome, error, log, fs, written) ==
    [outcome |-> outcome, error |-> error, log |-> log, files |-> fs, written |-> written]

\* the loop over the subcases, from subcase i on
RECURSIVE write_subcases(_, _, _, _, _, _, _, _)
write_subcase(values, full, solution_name, steps, i, labels, work, fs, log, written) ==
    IF values # "" THEN SubmodelOutcome("raised", values, log, fs, written)
    ELSE IF full.error # "" THEN SubmodelOutcome("raised", full.error, log, fs, written)
    ELSE IF dirname(full.path) \notin Directories
    THEN SubmodelOutcome("raised", "FileNotFoundError",
                         log \o <<LogLine("Writing to file", <<full.path>>)>>, fs, written)
    ELSE write_subcases(solution_name, steps, i + 1, labels, work,
                        write_file(full.path, HeaderLine \o data_lines(sorted_keys(labels), i), fs),
                        log \o <<LogLine("Writing to file", <<full.path>>)>>,
                        Append(written, full.path))

write_subcases(solution_name, steps, i, labels, work, fs, log, written) ==
    IF i > Len(steps) THEN SubmodelOutcome("returned", "", log, fs, written)
    ELSE write_subcase(get_nodal_values(solution_name, i, 1, DisplacementNodal, work),
                       create_full_path(solution_name \o steps[i], <<".","c","s","v">>, work),
                       solution_name, steps, i, labels, work, fs, log, written)

write_for_nodes(nodes_in_group, solution, solution_name, model, work, fs) ==
    IF nodes_in_group.error # ""
    THEN SubmodelOutcome("raised", nodes_in_group.error, nodes_in_group.log, fs, <<>>)
    ELSE IF solution = 0
    THEN SubmodelOutcome("raised", "AttributeError", <<>>, fs, <<>>)
    ELSE write_subcases(solution_name, model.steps[solution], 1, nodes_in_group.labels,
                        work, fs, <<>>, <<>>)

write_submodel_data_to_file(solution_name, group_name, work, groups, model, fs) ==
    write_for_nodes(get_nodes_in_group(group_name, groups), get_solution(work, solution_name),
                    solution_name, model, work, fs)

\* the plate for the submodel: the first solution, the solved one, has two
\* subcases
PlateSubcases ==
    [steps |-> [s \in DOMAIN SimSolutions |->
                   IF s = 1 THEN << <<"L">>, <<"M">> >> ELSE <<>>]]

\* names the user gives a subcase
SubcaseLabels == { <<"L">>, <<"M">>, <<"L",".","c","s","v">> }

\* the entities the user puts in the group: two nodes and an element
GroupEntities == { Entity("FENode", 1), Entity("FENode", 2), Entity("FEElement", 1) }

SubmodelGroup == <<"s","u","b">>

\* group and solution names a journal passes
GroupArguments == { <<" ","S","u","b">>, <<"n","o">> }
SubmodelSolutions == { <<"s","a">>, <<"S","b">>, <<"S","x">> }

InitSubmodel ==
    /\ workPart \in {"plate.sim", "plate.fem"}
    /\ basePart = workPart
    /\ cwd = StartDirectory
    /\ expressions = [p \in Parts |-> <<>>]
    /\ companionResults = [s \in DOMAIN SimSolutions |-> <<>>]
    /\ caeGroups = << NodeGroup(SubmodelGroup, <<>>) >>
    /\ files = NoFiles
    /\ feModel = PlateSubcases
    /\ postInputs = <<>>
    /\ call = NoCall

\* the user adds a node or an element to the group; the host reports the
\* entities in the order they were added
UserAddsToGroup ==
    /\ \E entity \in GroupEntities :
          /\ \A k \in DOMAIN caeGroups[1].entities : caeGroups[1].entities[k] # entity
          /\ caeGroups' = [caeGroups EXCEPT ![1].entities = Append(@, entity)]
    /\ call' = NoCall
    /\ UNCHANGED <<workPart, basePart, cwd, expressions, companionResults, files, feModel,
                   postInputs>>

\* the user renames a subcase of the solved solution; the names of the
\* subcases of a solution differ
UserRenamesSubcase ==
    /\ \E k \in DOMAIN feModel.steps[1], name \in SubcaseLabels :
          /\ \A j \in DOMAIN feModel.steps[1] : feModel.steps[1][j] # name
          /\ feModel' = [feModel EXCEPT !.steps[1][k] = name]
    /\ call' = NoCall
    /\ UNCHANGED <<workPart, basePart, cwd, expressions, companionResults, caeGroups, files,
                   postInputs>>

SubmodelCall(solution_name, group_name, r) ==
    /\ files' = r.files
    /\ call' = [op |-> "write_submodel_data_to_file", solution_name |-> solution_name,
                group_name |-> group_name, work |-> workPart, outcome |-> r.outcome,
                error |-> r.error, log |-> r.log, written |-> r.written]
    /\ UNCHANGED <<workPart, basePart, cwd, expressions, companionResults, caeGroups, feModel,
                   postInputs>>

WriteSubmodelDataToFile ==
    \E solution_name \in SubmodelSolutions, group_name \in GroupArguments :
        SubmodelCall(solution_name, group_name,
                     write_submodel_data_to_file(solution_name, group_name, workPart,
                                                 caeGroups, feModel, files))

NextSubmodel ==
    \/ SwitchWorkPart
    \/ UserAddsToGroup
    \/ UserRenamesSubcase
    \/ WriteSubmodelDataToFile

SpecSubmodel == InitSubmodel /\ [][NextSubmodel]_vars

(***************************************************************************)
(* results_display: sort_screenshots on the list a journal has built       *)
(***************************************************************************)
\* a screenshot definition with the given key, saved under file_name
Shot(file_name, solution, subcase, iteration, resultType) ==
    [file_name |-> file_name, annotation_text |-> <<>>, template_name |-> <<"t">>,
     group_name |-> <<"g">>, camera_name |-> <<"c">>, solution |-> solution,
     subcase |-> subcase, iteration |-> iteration, resultType |-> resultType,
     component_name |-> <<"X">>, identifier |-> <<>>]

\* definitions that differ in one part of the key each, two with the same
\* key, and solution names that differ in case only
Shots ==
    { Shot(<<"p">>, <<"S","a">>, 1, 1, <<"a">>),
      Shot(<<"q">>, <<"S","a">>, 1, 1, <<"a">>),
      Shot(<<"p">>, <<"s","a">>, 1, 1, <<"a">>),
      Shot(<<"p">>, <<"S","a">>, 2, 1, <<"a">>),
      Shot(<<"p">>, <<"S","a">>, 1, 2, <<"a">>),
      Shot(<<"p">>, <<"S","a">>, 1, 1, <<"B">>),
      Shot(<<"q">>, <<"S">>, 2, 2, <<"a","b">>) }

MaxShots == 3

InitSort ==
    /\ workPart = "plate.sim"
    /\ basePart = workPart
    /\ cwd = StartDirectory
    /\ expressions = [p \in Parts |-> <<>>]
    /\ companionResults = [s \in DOMAIN SimSolutions |-> <<>>]
    /\ caeGroups = <<>>
    /\ files = NoFiles
    /\ feModel = NoModel
    /\ postInputs = <<>>
    /\ call = NoCall

\* the journal appends a definition to its list
AppendScreenShot ==
    /\ Len(postInputs) < MaxShots
    /\ \E screenshot \in Shots : postInputs' = Append(postInputs, screenshot)
    /\ call' = NoCall
    /\ UNCHANGED <<workPart, basePart, cwd, expressions, companionResults, caeGroups, files,
                   feModel>>

\* sorted() returns a new list; the list passed is left as it is
SortScreenshots ==
    /\ call' = [op |-> "sort_screenshots", screenshots |-> postInputs,
                returns |-> sort_screenshots(postInputs)]
    /\ UNCHANGED <<workPart, basePart, cwd, expressions, companionResults, caeGroups, files,
                   feModel, postInputs>>

\* the journal goes on with the sorted list
UseSortedList ==
    /\ call.op = "sort_screenshots"
    /\ postInputs' = call.returns
    /\ call' = NoCall
    /\ UNCHANGED <<workPart, basePart, cwd, expressions, companionResults, caeGroups, files,
                   feModel>>

NextSort == AppendScreenShot \/ SortScreenshots \/ UseSortedList

SpecSort == InitSort /\ [][NextSort]_vars

(***************************************************************************)
(* tools: create_full_path applied to names and to its own results.  A     *)
(* journal starts with a file name and an extension.                       *)
(***************************************************************************)
MaxNameLen == 3
MaxExtensionLen == 2

\* the characters that matter to os.path: a letter, the dot, the separator
PathCharacters == {"a", ".", "/"}

Strings(n) == UNION { [1..k -> PathCharacters] : k \in 0..n }

InitPath ==
    /\ workPart \in {"plate.sim", "none"}
    /\ basePart = workPart
    /\ cwd = StartDirectory
    /\ expressions = [p \in Parts |-> <<>>]
    /\ companionResults = [s \in DOMAIN SimSolutions |-> <<>>]
    /\ caeGroups = <<>>
    /\ files = NoFiles
    /\ feModel = NoModel
    /\ postInputs = <<>>
    /\ call \in [op : {"none"}, file_name : Strings(MaxNameLen),
                 extension : Strings(MaxExtensionLen)]

PathCall(given, file_name, extension, again, r) ==
    /\ call' = [op |-> "create_full_path", given |-> given, file_name |-> file_name,
                extension |-> extension, again |-> again, error |-> r.error, path |-> r.path]
    /\ UNCHANGED <<workPart, basePart, cwd, expressions, companionResults, caeGroups, files,
                   feModel, postInputs>>

\* the journal makes a path of its file name and extension
CreateFullPath ==
    /\ call.op = "none"
    /\ PathCall(call.file_name, call.file_name, call.extension, FALSE,
                create_full_path(call.file_name, call.extension, workPart))

\* a journal passes the path it got to create_full_path once more, with the
\* same extension
CreateFullPathAgain ==
    /\ call.op = "create_full_path"
    /\ ~call.again
    /\ call.error = ""
    /\ PathCall(call.given, call.path, call.extension, TRUE,
                create_full_path(call.path, call.extension, workPart))

NextPath == CreateFullPath \/ CreateFullPathAgain

SpecPath == InitPath /\ [][NextPath]_vars

(***************************************************************************)
(* cad: bisector planes between the planes of a list.  The part holds its  *)
(* datum plane features in creation order; a bisector records the two      *)
(* planes it lies between.                                                 *)
(***************************************************************************)
MaxPlanes == 3      \* longest list of planes a journal passes
MaxFeatures == 4    \* most datum plane features in the part

DatumPlaneFeature(id, geometry) == [id |-> id, geometry |-> geometry]

\* list.insert(index, x), index counted from 0 and not negative
insert_at_end(list, index, x) == Append(list, x)

insert(list, index, x) ==
    LET at == IF index > Len(list) THEN Len(list) ELSE index
    IN SubSeq(list, 1, at) \o <<x>> \o SubSeq(list, at + 1, Len(list))

\* the feature CommitFeature adds to the part
create_bisector_datum_plane(datum_plane1, datum_plane2, features) ==
    DatumPlaneFeature(Len(features) + 1, <<datum_plane1, datum_plane2>>)

\* for i in range(len(planes) - 1): new_planes.append(create_bisector_datum_plane(...))
RECURSIVE create_bisectors(_, _, _, _)
create_bisectors(planes, i, new_planes, features) ==
    IF i >= Len(planes) - 1 THEN [new_planes |-> new_planes, features |-> features]
    ELSE LET feature == create_bisector_datum_plane(planes[i + 1].id, planes[i + 2].id, features)
         IN create_bisectors(planes, i + 1, Append(new_planes, feature),
                             Append(features, feature))

\* for i in range(len(new_planes)): return_planes.insert(2 * i + 1, new_planes[i])
RECURSIVE insert_new_planes(_, _, _)
insert_new_planes(return_planes, new_planes, i) ==
    IF i >= Len(new_planes) THEN return_planes
    ELSE insert_new_planes(insert(return_planes, 2 * i + 1, new_planes[i + 1]),
                           new_planes, i + 1)

\* the list returned, the list passed as the call leaves it, and the features
\* of the part after the call
bisector_multiple_planes(planes, features) ==
    LET created == create_bisectors(planes, 0, <<>>, features)
        return_planes == [k \in DOMAIN planes |-> planes[k]]
    IN [returns  |-> insert_new_planes(return_planes, created.new_planes, 0),
        planes   |-> planes,
        features |-> created.features]

InitPlanes ==
    /\ workPart = "plate.prt"
    /\ basePart = workPart
    /\ cwd = StartDirectory
    /\ expressions = [p \in Parts |-> <<>>]
    /\ companionResults = [s \in DOMAIN SimSolutions |-> <<>>]
    /\ caeGroups = <<>>
    /\ files = NoFiles
    /\ feModel = [features |-> <<>>]
    /\ postInputs = <<>>
    /\ call = NoCall

\* the user adds a datum plane to the part
UserCreatesDatumPlane ==
    /\ Len(feModel.features) < MaxFeatures
    /\ feModel' = [features |-> Append(feModel.features,
                                       DatumPlaneFeature(Len(feModel.features) + 1, <<>>))]
    /\ call' = NoCall
    /\ UNCHANGED <<workPart, basePart, cwd, expressions, companionResults, caeGroups, files,
                   postInputs>>

\* a journal passes a list of planes of the part
BisectorMultiplePlanes ==
    \E n \in 0..MaxPlanes :
        \E chosen \in [1..n -> DOMAIN feModel.features] :
            LET planes == [k \in 1..n |-> feModel.features[chosen[k]]]
                r == bisector_multiple_planes(planes, feModel.features)
            IN /\ Len(r.features) <= MaxFeatures
               /\ feModel' = [features |-> r.features]
               /\ call' = [op |-> "bisector_multiple_planes", planes |-> planes,
                           planes_after |-> r.planes, returns |-> r.returns,
                           before |-> feModel.features]
               /\ UNCHANGED <<workPart, basePart, cwd, expressions, companionResults,
                              caeGroups, files, postInputs>>

NextPlanes == UserCreatesDatumPlane \/ BisectorMultiplePlanes

SpecPlanes == InitPlanes /\ [][NextPlanes]_vars

(***************************************************************************)
(* tools: print_part_tree.  The simulation refers to the assembly fem; the *)
(* assembly fem has components, each of a part; the fem may be linked to a *)
(* cad part; the cad part may have a root component (without children).    *)
(***************************************************************************)
MaxChildren == 3

ComponentParts == {"plate.fem", "plate.prt"}

\* a line of the listing window: indentation(level) gives level + 1 tabs
TreeLine(tabs, part, note) == [tabs |-> tabs, part |-> part, note |-> note]

indentation(level) == level + 1

RECURSIVE print_part_tree(_, _, _)
RECURSIVE print_children(_, _, _, _, _)

\* for i in range(stop): print_part_tree(children[i].Prototype.OwningPart, level + 1)
print_children(children, i, stop, level, model) ==
    IF i >= stop THEN <<>>
    ELSE print_part_tree(children[i + 1], level + 1, model)
             \o print_children(children, i + 1, stop, level, model)

print_part_tree(base_part, requested_level, model) ==
    LET level == requested_level
        children == model.children[base_part]
    IN IF isinstance(Instance(base_part), Class("SimPart")) = "True"
       THEN <<TreeLine(0, base_part, "sim")>> \o print_part_tree(model.femPart, 0, model)
       ELSE IF isinstance(Instance(base_part), Class("AssyFemPart")) = "True"
       THEN <<TreeLine(indentation(level), base_part, "located")>>
                \o print_children(children, 0, Len(children) - 1, level, model)
       ELSE IF isinstance(Instance(base_part), Class("FemPart")) = "True"
       THEN <<TreeLine(indentation(level), base_part,
                       IF model.linked THEN "linked" ELSE "not linked")>>
       ELSE <<TreeLine(indentation(level), base_part, "located")>>
                \o (IF ~model.root THEN <<>>
                    ELSE print_children(children, 0, Len(children), level, model))

InitTree ==
    /\ workPart = "plate.sim"
    /\ basePart = workPart
    /\ cwd = StartDirectory
    /\ expressions = [p \in Parts |-> <<>>]
    /\ companionResults = [s \in DOMAIN SimSolutions |-> <<>>]
    /\ caeGroups = <<>>
    /\ files = NoFiles
    /\ feModel = [femPart |-> "plate.afem", children |-> [p \in Parts |-> <<>>],
                  linked |-> TRUE, root |-> FALSE]
    /\ postInputs = <<>>
    /\ call = NoCall

TreeUnchanged ==
    UNCHANGED <<workPart, basePart, cwd, expressions, companionResults, caeGroups, files,
                postInputs>>

\* the user adds a component to the assembly fem
UserAddsComponent ==
    /\ Len(feModel.children["plate.afem"]) < MaxChildren
    /\ \E part \in ComponentParts :
           feModel' = [feModel EXCEPT !.children["plate.afem"] = Append(@, part)]
    /\ call' = NoCall
    /\ TreeUnchanged

\* the user removes the last component of the assembly fem
UserRemovesComponent ==
    /\ feModel.children["plate.afem"] # <<>>
    /\ feModel' = [feModel EXCEPT !.children["plate.afem"] = SubSeq(@, 1, Len(@) - 1)]
    /\ call' = NoCall
    /\ TreeUnchanged

\* the user links the fem to a cad part or removes the link, or gives the
\* cad part a root component or takes it away
UserEditsPart ==
    /\ \/ feModel' = [feModel EXCEPT !.linked = ~@]
       \/ feModel' = [feModel EXCEPT !.root = ~@]
    /\ call' = NoCall
    /\ TreeUnchanged

PrintPartTree ==
    \E base_part \in Parts :
        /\ call' = [op |-> "print_part_tree", base_part |-> base_part,
                    lines |-> print_part_tree(base_part, 0, feModel)]
        /\ UNCHANGED feModel
        /\ TreeUnchanged

NextTree == UserAddsComponent \/ UserRemovesComponent \/ UserEditsPart \/ PrintPartTree

SpecTree == InitTree /\ [][NextTree]_vars

(***************************************************************************)
(* preprocessing: copy_groups_to_sim_part called on the work part, time    *)
(* and again, while the user adds groups to the fem components             *)
(***************************************************************************)
MaxUserGroups == 2

\* names of groups the user makes, and the components that own them ("None"
\* for a group of the simulation part itself)
UserGroupNames == { <<"f">>, <<"h">>, OutputGroup }
OwningComponents == { "None", "fem", "fem2" }

\* the lists of names a journal passes
GroupFilters == { <<>>, << <<"f">> >>, << <<"f">>, <<"h">>, OutputGroup >> }

\* copy_groups_to_sim_part(None, groups_in_screenshots)
copy_groups_of_work_part(work, groups, groups_in_screenshots) ==
    IF isinstance(Instance(work), Class("SimPart")) # "True"
    THEN [error |-> "ValueError", groups |-> groups, copied_groups |-> <<>>]
    ELSE LET copy == copy_groups_to_sim_part(groups, groups_in_screenshots)
         IN [error |-> "", groups |-> copy.groups, copied_groups |-> copy.copied_groups]

InitCopy ==
    /\ workPart \in {"plate.sim", "plate.fem"}
    /\ basePart = workPart
    /\ cwd = StartDirectory
    /\ expressions = [p \in Parts |-> <<>>]
    /\ companionResults = [s \in DOMAIN SimSolutions |-> <<>>]
    /\ caeGroups = <<>>
    /\ files = NoFiles
    /\ feModel = NoModel
    /\ postInputs = <<>>
    /\ call = NoCall

\* the user makes a group, in the simulation or in one of the fem components
UserCreatesGroup ==
    /\ Cardinality({ k \in DOMAIN caeGroups : ~endswith(caeGroups[k].Name, temp_suffix) })
           < MaxUserGroups
    /\ \E name \in UserGroupNames, owner \in OwningComponents, entities \in {0, 1} :
           caeGroups' = Append(caeGroups, Group(name, owner, entities))
    /\ call' = NoCall
    /\ UNCHANGED <<workPart, basePart, cwd, expressions, companionResults, files, feModel,
                   postInputs>>

CopyGroupsToSimPart ==
    \E groups_in_screenshots \in GroupFilters :
        LET r == copy_groups_of_work_part(workPart, caeGroups, groups_in_screenshots)
        IN /\ caeGroups' = r.groups
           /\ call' = [op |-> "copy_groups_to_sim_part",
                       groups_in_screenshots |-> groups_in_screenshots,
                       error |-> r.error, returns |-> r.copied_groups, before |-> caeGroups]
           /\ UNCHANGED <<workPart, basePart, cwd, expressions, companionResults, files,
                          feModel, postInputs>>

NextCopy == UserCreatesGroup \/ CopyGroupsToSimPart

SpecCopy == InitCopy /\ [][NextCopy]_vars

(***************************************************************************)
(* postprocessing: envelopes and exports.  The module keeps the part that  *)
(* was the work part when it was loaded (base_part); the user may make     *)
(* another part the work part before the journal calls a function.  The    *)
(* file name is taken to be free and the enumeration values to be valid.   *)
(***************************************************************************)
MaxCompanionResults == 2   \* most companion results of a solution

\* envelope_operation, result_shell_section and result_component
EnvelopeSettings ==
    [operation : {"Max", "Min"}, shell_section : {"Maximum"}, component : {"VonMises"}]

\* what the envelope builder is committed with
Envelope(post_inputs, settings, absolute, companion_result_name, target) ==
    [post_inputs |-> post_inputs, settings |-> settings, absolute |-> absolute,
     companion_result_name |-> companion_result_name, target |-> target]

EnvelopeOutcome(outcome, error, log, comps, envelope) ==
    [outcome |-> outcome, error |-> error, log |-> log, companionResults |-> comps,
     envelope |-> envelope]

\* envelope_results from the loading of the results on (lines 705-757)
envelope_build(post_inputs, companion_result_name, settings, absolute, target, warn, work, comps) ==
    LET loaded == load_results(post_inputs, work)
        types  == get_result_types(post_inputs)
    IN  IF loaded # "" THEN EnvelopeOutcome("raised", loaded, warn, comps, <<>>)
        ELSE IF types # "" THEN EnvelopeOutcome("raised", types, warn, comps, <<>>)
        ELSE EnvelopeOutcome("returned", "",
                 warn \o <<"Created an envelope for the following results for",
                           IF absolute THEN "Absolute: True" ELSE "Absolute: False">>,
                 [comps EXCEPT ![target] = Append(@, companion_result_name)],
                 <<Envelope(post_inputs, settings, absolute, companion_result_name, target)>>)

envelope_results(post_inputs, companion_result_name, settings, absolute, solution_name, base, work, comps) ==
    LET named  == get_solution(work, solution_name)
        warn   == IF named = 0 /\ solution_name # <<>>
                  THEN <<"Solution not found. Adding companion result to first">> ELSE <<>>
        first  == IF post_inputs = <<>> THEN 0 ELSE get_solution(work, post_inputs[1].solution)
        target == IF named # 0 THEN named ELSE first
    IN  IF isinstance(Instance(base), Class("SimPart")) # "True"
        THEN EnvelopeOutcome("returned", "",
                 <<"ExportResult needs to start from a .sim file. Exiting">>, comps, <<>>)
        ELSE IF check_post_input(post_inputs) # ""
        THEN EnvelopeOutcome("returned", "",
                 <<"Did not execute ExportResult due to input error.">>, comps, <<>>)
        ELSE IF named = 0 /\ post_inputs = <<>>
        THEN EnvelopeOutcome("raised", "IndexError", <<>>, comps, <<>>)
        ELSE IF target = 0
        THEN EnvelopeOutcome("raised", "AttributeError", warn, comps, <<>>)
        ELSE envelope_build(post_inputs, companion_result_name, settings, absolute, target,
                            warn, work,
                            delete_companion_result(target, companion_result_name, comps))

\* envelope_inputs[i] = PostInput(solution_name, i + 1, 1, result_type)
envelope_inputs(solution_name, result_type, step_count) ==
    [i \in 1..step_count |-> PostInput(solution_name, i, 1, result_type, <<>>)]

\* the call of envelope_results on line 854
envelope_all_subcases(solution_name, result_type, companion_result_name, settings, absolute, base, work, comps) ==
    envelope_results(envelope_inputs(solution_name, result_type, NumLoadcases),
                     companion_result_name, settings, FALSE, solution_name,
                     base, work, comps)

envelope_warning(r) ==
    IF r.outcome = "raised" THEN r
    ELSE [r EXCEPT !.log = @ \o <<"Warning: Due to an unidentified bug, the companion result is not shown or available.">>]

envelope_solution(solution_name, result_type, companion_result_name, settings, absolute, base, work, comps) ==
    IF PartClass(base) # "SimPart"
    THEN EnvelopeOutcome("returned", "",
             <<"EnvelopeResults needs to be started from a .sim file!">>, comps, <<>>)
    ELSE IF get_solution(work, solution_name) = 0
    THEN EnvelopeOutcome("returned", "", <<"No solution found with name">>, comps, <<>>)
    ELSE envelope_warning(
             envelope_all_subcases(solution_name, result_type, companion_result_name,
                                   settings, absolute, base, work, comps))

ExportIdentifier == <<"n","x","o","p","e","n","e","x","p","o","r","t","r","e","s","u","l","t">>

ExportOutcome(outcome, error, log, exprs) ==
    [outcome |-> outcome, error |-> error, log |-> log, expressions |-> exprs]

\* export_result: the builder defines its expression in the work part, the
\* finally block deletes from sim_part = base_part
export_result(post_input, base, work, exprs) ==
    LET loaded     == load_results(<<post_input>>, work)
        types      == get_result_types(<<post_input>>)
        registered == [exprs EXCEPT ![work] = SetResultTypes(<<ExportIdentifier>>, @)]
        cleaned    == [registered EXCEPT
                          ![base] = delete_identifier_expressions(<<ExportIdentifier>>, @)]
    IN  IF isinstance(Instance(base), Class("SimPart")) # "True"
        THEN ExportOutcome("returned", "",
                 <<"ExportResult needs to start from a .sim file. Exiting">>, exprs)
        ELSE IF check_post_input(<<post_input>>) # ""
        THEN ExportOutcome("returned", "",
                 <<"Did not execute ExportResult due to input error.">>, exprs)
        ELSE IF loaded # "" THEN ExportOutcome("raised", loaded, <<>>, exprs)
        ELSE IF types # "" THEN ExportOutcome("raised", types, <<>>, exprs)
        ELSE ExportOutcome("returned", "", <<"Exported result:">>, cleaned)

\* names and result types a journal passes to envelope_solution
EnvelopeSolutionNames == { <<"s","a">>, <<"S","b">>, <<"S","x">> }
EnvelopeResultTypes == { Stress, <<"S","t","r","a","i","n">> }

InitPost ==
    /\ workPart \in Parts
    /\ basePart = workPart
    /\ cwd = StartDirectory
    /\ expressions = [p \in Parts |-> <<>>]
    /\ companionResults = [s \in DOMAIN SimSolutions |-> <<>>]
    /\ caeGroups = <<>>
    /\ files = NoFiles
    /\ feModel = NoModel
    /\ postInputs = <<>>
    /\ call = NoCall

\* the journal makes a list of one PostInput
OnePostInput ==
    /\ \E p \in CombineInputs : postInputs' = <<p>>
    /\ call' = NoCall
    /\ UNCHANGED <<workPart, basePart, cwd, expressions, companionResults, caeGroups, files,
                   feModel>>

EnvelopeCall(op, arguments, r) ==
    /\ companionResults' = r.companionResults
    /\ call' = [op |-> op, args |-> arguments, outcome |-> r.outcome, error |-> r.error,
                log |-> r.log, envelope |-> r.envelope, base |-> basePart, work |-> workPart]
    /\ UNCHANGED <<workPart, basePart, cwd, expressions, caeGroups, files, feModel, postInputs>>

EnvelopeSolution ==
    \E solution_name \in EnvelopeSolutionNames, result_type \in EnvelopeResultTypes,
       settings \in EnvelopeSettings, absolute \in BOOLEAN :
        /\ Len(companionResults[1]) < MaxCompanionResults
        /\ EnvelopeCall("envelope_solution",
               [solution_name |-> solution_name, result_type |-> result_type,
                settings |-> settings, absolute |-> absolute],
               envelope_solution(solution_name, result_type, <<"e","n","v">>, settings,
                                 absolute, basePart, workPart, companionResults))

EnvelopeResults ==
    \E solution_name \in SolutionNames, settings \in EnvelopeSettings, absolute \in BOOLEAN :
        /\ Len(companionResults[1]) < MaxCompanionResults
        /\ EnvelopeCall("envelope_results",
               [post_inputs |-> postInputs, solution_name |-> solution_name,
                settings |-> settings, absolute |-> absolute],
               envelope_results(postInputs, <<"E","n","v">>, settings, absolute,
                                solution_name, basePart, workPart, companionResults))

ExportResult ==
    /\ postInputs # <<>>
    /\ LET r == export_result(postInputs[1], basePart, workPart, expressions)
       IN /\ expressions' = r.expressions
          /\ call' = [op |-> "export_result", args |-> [post_input |-> postInputs[1]],
                      outcome |-> r.outcome, error |-> r.error, log |-> r.log,
                      base |-> basePart, work |-> workPart]
    /\ UNCHANGED <<workPart, basePart, cwd, companionResults, caeGroups, files, feModel,
                   postInputs>>

\* combine_results with a result that the host accepts
CombineOneResult ==
    /\ Len(companionResults[1]) < MaxCompanionResults
    /\ \E solution_name \in SolutionNames :
          LET r == combine_results(postInputs, <<"c","o","m","b">>, solution_name, "",
                                   basePart, workPart, expressions, companionResults)
          IN  /\ expressions' = r.expressions
              /\ companionResults' = r.companionResults
              /\ call' = [op |-> "combine_results",
                          args |-> [post_inputs |-> postInputs, solution_name |-> solution_name],
                          outcome |-> r.outcome, error |-> r.error, log |-> r.log,
                          base |-> basePart, work |-> workPart]
    /\ UNCHANGED <<workPart, basePart, cwd, caeGroups, files, feModel, postInputs>>

NextPost ==
    \/ ChangeWorkPart
    \/ OnePostInput
    \/ EnvelopeSolution
    \/ EnvelopeResults
    \/ ExportResult
    \/ CombineOneResult

SpecPost == InitPost /\ [][NextPost]_vars

(***************************************************************************)
(* postprocessing: get_result_types on one PostInput of the solved         *)
(* solution, with subcase and iteration numbers in and out of range        *)
(***************************************************************************)
\* the position, counted from 1, that the Python index i selects in a list of
\* n items: negative indices count from the end
py_index(i, n) == IF i >= 0 THEN i + 1 ELSE n + i + 1

\* the load case, iteration and result type get_result_types selects for a
\* PostInput, or the exception that leaves it
result_type_of(post_input) ==
    LET matches == { k \in DOMAIN ResultTypeNames :
                        strip(lower(ResultTypeNames[k])) = strip(lower(post_input.resultType)) }
        none == [error |-> "", loadcase |-> 0, iteration |-> 0, result_type |-> 0]
    IN  IF ~PyIndexOK(post_input.subcase - 1, NumLoadcases)
        THEN [none EXCEPT !.error = "IndexError"]
        ELSE IF ~PyIndexOK(post_input.iteration - 1, NumIterations)
        THEN [none EXCEPT !.error = "IndexError"]
        ELSE IF matches = {} THEN [none EXCEPT !.error = "ValueError"]
        ELSE [error |-> "",
              loadcase |-> py_index(post_input.subcase - 1, NumLoadcases),
              iteration |-> py_index(post_input.iteration - 1, NumIterations),
              result_type |-> CHOOSE k \in matches : \A j \in matches : k <= j]

\* subcase and iteration numbers a journal writes
SubcaseNumbers == (0 - NumLoadcases - 1)..(NumLoadcases + 1)
IterationNumbers == (0 - NumIterations - 1)..(NumIterations + 1)

InitTypes ==
    /\ workPart = "plate.sim"
    /\ basePart = workPart
    /\ cwd = StartDirectory
    /\ expressions = [p \in Parts |-> <<>>]
    /\ companionResults = [s \in DOMAIN SimSolutions |-> <<>>]
    /\ caeGroups = <<>>
    /\ files = NoFiles
    /\ feModel = NoModel
    /\ postInputs = <<>>
    /\ call = NoCall

\* the journal writes a PostInput of the solved solution
WritePostInput ==
    /\ \E subcase \in SubcaseNumbers, iteration \in IterationNumbers,
          resultType \in EnvelopeResultTypes :
           postInputs' = <<PostInput(<<"S","a">>, subcase, iteration, resultType, <<>>)>>
    /\ call' = NoCall
    /\ UNCHANGED <<workPart, basePart, cwd, expressions, companionResults, caeGroups, files,
                   feModel>>

GetResultTypes ==
    /\ postInputs # <<>>
    /\ call' = [op |-> "get_result_types", post_input |-> postInputs[1],
                error |-> get_result_types(postInputs),
                returns |-> result_type_of(postInputs[1])]
    /\ UNCHANGED <<workPart, basePart, cwd, expressions, companionResults, caeGroups, files,
                   feModel, postInputs>>

NextTypes == WritePostInput \/ GetResultTypes

SpecTypes == InitTypes /\ [][NextTypes]_vars

(***************************************************************************)
(* Properties of the postprocessing calls                                  *)
(***************************************************************************)
\* two letters or characters that differ at most in case
SameCharIgnoringCase(c, d) ==
    \/ c = d
    \/ \E i \in DOMAIN UpperCase :
          {c, d} = {UpperCase[i], LowerCase[i]}

SameIgnoringCase(a, b) ==
    /\ Len(a) = Len(b)
    /\ \A i \in DOMAIN a : SameCharIgnoringCase(a[i], b[i])

CountIgnoringCase(names, name) ==
    Cardinality({ k \in DOMAIN names : SameIgnoringCase(names[k], name) })

SolutionExists(name) == \E k \in DOMAIN SimSolutions : SameIgnoringCase(SimSolutions[k], name)

SolutionLoads(name) ==
    \E k \in SolutionsWithResult : SameIgnoringCase(SimSolutions[k], name)

ResultTypeKnown(name) ==
    \E k \in DOMAIN ResultTypeNames : SameIgnoringCase(strip(ResultTypeNames[k]), strip(name))

\* C1: after a combine_results call that registered its identifiers with the
\* host, no expression named like one of its identifiers (case-insensitively)
\* remains in the simulation document, whichever step raised.
C1_TransientExpressionsDeleted ==
    (call.op = "combine_results" /\ call.registered)
        => \A i \in DOMAIN call.post_inputs :
              CountIgnoringCase(expressions[workPart], call.post_inputs[i].identifier) = 0

\* C2 as stated: a combine_results call made when an earlier call left a
\* companion result of that name on the same solution leaves exactly one.
C2_ExactlyOneAfterRepeat ==
    (/\ call.op = "combine_results"
     /\ call.target # 0
     /\ CountIgnoringCase(call.before[call.target], call.companion_result_name) >= 1)
        => CountIgnoringCase(companionResults[call.target], call.companion_result_name) = 1

\* C2 as amended: a combine_results call that resolved its target leaves
\* exactly one companion result of that name (case-insensitively) on the
\* target when its commit succeeded, and none when it raised after the
\* deletion, whatever calls preceded it.
C2_CompanionReplaced ==
    (call.op = "combine_results" /\ call.target # 0)
        => CountIgnoringCase(companionResults[call.target], call.companion_result_name)
              = (IF call.outcome = "returned" THEN 1 ELSE 0)

\* a second successful call replaced the result of a first one whose name
\* differs in case
C2_Witness ==
    /\ call.op = "combine_results"
    /\ call.target # 0
    /\ call.outcome = "returned"
    /\ CountIgnoringCase(call.before[call.target], call.companion_result_name) = 1
    /\ \A k \in DOMAIN call.before[call.target] :
          call.before[call.target][k] # call.companion_result_name
    /\ companionResults[call.target] = <<call.companion_result_name>>

InvalidForCombine(p) ==
    \/ ~SolutionExists(p.solution)
    \/ p.subcase \notin 1..NumLoadcases
    \/ p.iteration \notin 1..NumIterations
    \/ ~ResultTypeKnown(p.resultType)

\* C3: combine_results started from the simulation part with a PostInput that
\* names a missing solution, an index out of range or an unknown result type
\* returns normally and neither creates nor deletes a companion result.
C3_InvalidInputReturnsCleanly ==
    (/\ call.op = "combine_results"
     /\ \E i \in DOMAIN call.post_inputs : InvalidForCombine(call.post_inputs[i]))
        => /\ call.outcome = "returned"
           /\ companionResults = call.before

InvalidForCheck(p) ==
    \/ ~SolutionExists(p.solution)
    \/ ~SolutionLoads(p.solution)
    \/ p.subcase \notin 1..NumLoadcases
    \/ p.iteration \notin 1..NumIterations
    \/ ~ResultTypeKnown(p.resultType)

\* C4: check_post_input raises exactly when some PostInput of the list fails
\* one of the five checks (solution, result, subcase, iteration, result type).
C4_CheckPostInputRaises ==
    call.op = "check_post_input"
        => ((call.error # "") <=> \E i \in DOMAIN call.post_inputs :
                                      InvalidForCheck(call.post_inputs[i]))

BadIdentifier(id) ==
    \/ id = <<>>
    \/ \E k \in DOMAIN nx_reserved_expressions :
          SameIgnoringCase(nx_reserved_expressions[k], id)
    \/ \E k \in DOMAIN expressions[basePart] : SameIgnoringCase(expressions[basePart][k], id)

\* C5: check_post_input_identifiers raises exactly when some identifier of the
\* list is empty, is a reserved expression name up to case, or is the name of
\* an expression of the document up to case.
C5_IdentifierCheck ==
    call.op = "check_post_input_identifiers"
        => ((call.error # "") <=> \E i \in DOMAIN call.post_inputs :
                                      BadIdentifier(call.post_inputs[i].identifier))

\* the check rejected an identifier that matches a reserved name or an
\* expression of the document only after case folding
C5_Witness ==
    /\ call.op = "check_post_input_identifiers"
    /\ call.error # ""
    /\ \A i \in DOMAIN call.post_inputs :
          LET id == call.post_inputs[i].identifier IN
          /\ id # <<>>
          /\ id \notin reserved_exact
          /\ \A k \in DOMAIN expressions[basePart] : expressions[basePart][k] # id

(***************************************************************************)
(* Properties of the preprocessing and solving calls                       *)
(***************************************************************************)
IsFePart(part) == "BaseFemPart" \in BaseClasses(PartClass(part))

WrongContext(c) ==
    \/ c.op \in {"create_node", "create_2dmesh_collector"} /\ ~IsFePart(c.work)
    \/ c.op \in {"solve_solution", "solve_all_solutions"} /\ PartClass(c.work) # "SimPart"

\* C6: create_node or create_2dmesh_collector called while the work part is
\* not a finite-element part, and solve_solution or solve_all_solutions
\* called while it is not a simulation part, write a diagnostic to the log
\* and return without raising and without changing the host document.
C6_WrongContextLogsAndReturns ==
    (call.op \in {"create_node", "create_2dmesh_collector", "solve_solution",
                  "solve_all_solutions"} /\ WrongContext(call))
        => /\ call.outcome = "returned"
           /\ call.log # <<>>
           /\ feModel = call.before

(***************************************************************************)
(* Properties of the image export                                          *)
(***************************************************************************)
\* C10: save_view_to_file guarantees overwrite: a file that exists at the
\* path the image is exported to is deleted before the export, no other file
\* is deleted, and the deletion never fails on a path that does not exist.
C10_ExistingExportFileDeleted ==
    call.op = "save_view_to_file"
        => /\ call.error # "FileNotFoundError"
           /\ call.removed = (IF exists(call.export_path, call.before)
                              THEN {call.export_path} ELSE {})

(***************************************************************************)
(* Properties of the definitions reader                                    *)
(***************************************************************************)
\* a line without its newline
LineBody(line) ==
    IF line # <<>> /\ line[Len(line)] = "\n" THEN SubSeq(line, 1, Len(line) - 1) ELSE line

Malformed(line) == LineBody(line) # <<>> /\ Len(split(line, ",")) # NumberOfItems

\* C9: read_screenshot_definitions is all-or-nothing: a non-blank line, at
\* any position, that splits on commas into a number of fields other than 10
\* makes the whole call fail and yield no ScreenShot; blank lines are skipped
\* and never count as malformed.
C9_AllOrNothing ==
    (call.op = "read_screenshot_definitions" /\ exists(call.file_path, files))
        => LET lines == readlines(files[call.file_path]) IN
           /\ (\E k \in DOMAIN lines : Malformed(lines[k]))
                  => (call.error # "" /\ call.screenshots = <<>>)
           /\ (\A k \in DOMAIN lines : LineBody(lines[k]) = <<>>) => call.error = ""

(***************************************************************************)
(* Properties of the screenshot generator                                  *)
(***************************************************************************)
\* the banner as a reader of the listing window knows it: 27 lines, the
\* fourth of them the first line of the licence
BannerLines == 27
LicenceLine == "THE SOFTWARE IS PROVIDED 'AS IS', WITHOUT WARRANTY OF ANY KIND, EXPRESS OR"

BannerLast(log) ==
    /\ Len(log) >= BannerLines
    /\ log[Len(log) - BannerLines + 4].text = LicenceLine

BannerPrinted(log) == \E k \in DOMAIN log : log[k].text = LicenceLine

TempGroups(groups) ==
    { groups[k].Name : k \in { j \in DOMAIN groups : endswith(groups[j].Name, temp_suffix) } }

\* C7: every run of create_screen_shots ends by printing the banner as its
\* last output, on every exit path.
C7_BannerOnEveryExit ==
    call.op = "create_screen_shots" => BannerLast(call.log)

\* C7, as the code has it: the banner is the last output of the runs that
\* reach the end of the function, all items processed and the cleanup done;
\* the runs that leave at an early return (work part not a simulation, picker
\* cancelled, file not parsed or without definitions, nothing selected, check
\* failed) return without raising and print no banner, and the runs in which
\* loading the results or an item raises print none either.
C7_BannerWhenRunCompletes ==
    call.op = "create_screen_shots"
        => /\ call.stage = "done" <=> BannerLast(call.log)
           /\ call.stage # "done" => ~BannerPrinted(call.log)
           /\ call.stage \in {"not sim", "cancelled", "parse", "empty", "check", "done"}
                  <=> call.outcome = "returned"
           /\ call.stage \in {"load", "item"} <=> call.outcome = "raised"

C7_Witness ==
    /\ call.op = "create_screen_shots"
    /\ call.stage = "done"
    /\ BannerLast(call.log)
    /\ Len(call.log) > BannerLines

\* C8: when a run of create_screen_shots that copied groups ends, all items
\* processed or some item failed, no group whose name ends with
\* "_screenshot_generator_temp" remains in the simulation part.
C8_NoTempGroupAfterRun ==
    (call.op = "create_screen_shots" /\ call.copied # {}) => TempGroups(caeGroups) = {}

\* C8, as the code has it: a run that reaches the end of the function leaves
\* no group whose name ends with the suffix, neither its own copies nor those
\* an earlier run left behind; a run that raises after the copy, in loading
\* the results or in an item, leaves every copy it made and every copy it
\* found; the runs that return early touch no group.
C8_TempGroupsDeletedWhenRunCompletes ==
    call.op = "create_screen_shots"
        => /\ call.stage = "done" => TempGroups(caeGroups) = {}
           /\ call.outcome = "raised"
                  => TempGroups(caeGroups) = TempGroups(call.before) \cup call.copied
           /\ call.stage \in {"not sim", "cancelled", "parse", "empty", "check"}
                  => caeGroups = call.before

C8_Witness ==
    /\ call.op = "create_screen_shots"
    /\ call.stage = "done"
    /\ call.copied # {}
    /\ TempGroups(caeGroups) = {}

\* the definitions a finished run was given, read again from the files
DefinitionsOf(file_paths) == read_selected_files(file_paths.paths, files, <<>>).screenshots

HasInvalidComponent(screenshots) ==
    \E k \in DOMAIN screenshots : screenshots[k].component_name \notin ComponentNames

\* C11: check_screenshots raises for every list with an item whose component
\* name is not exactly one of the host's component names, so a run of
\* create_screen_shots that was given such an item stops at the check and no
\* item gets an AttributeError from display_result or change_component.
C11_InvalidComponentStopsAtCheck ==
    (/\ call.op = "create_screen_shots"
     /\ call.stage \in {"check", "load", "item", "done"})
        => /\ HasInvalidComponent(DefinitionsOf(call.file_paths)) => call.stage = "check"
           /\ ~(call.stage = "item" /\ call.error = "AttributeError")

\* C12: after solve_dat_file ends, whether the solver ran, exited abnormally
\* or could not be started, the working directory is the one before the call.
C12_WorkingDirectoryRestored ==
    call.op = "solve_dat_file" => cwd = call.before

\* C13: solve_solution called from a simulation part with a name that matches
\* no solution, ignoring case, logs that the solution could not be found and
\* returns without raising and without submitting a solve.
C13_UnknownSolutionLogsAndReturns ==
    (/\ call.op = "solve_solution"
     /\ is_sim_part(call.work)
     /\ first_match(SimSolutions, call.args[1]) = 0)
        => /\ call.outcome = "returned"
           /\ \E k \in DOMAIN call.log :
                  call.log[k] = "Solution with name could not be found in"
           /\ feModel.solved = call.before.solved

\* the constraints before and after a call of create_nodal_constraint
OnlyChanged(before, after, target) ==
    /\ Len(after) = Len(before)
    /\ \A k \in DOMAIN before : k # target => after[k] = before[k]

CreatedOne(before, after) ==
    /\ Len(after) = Len(before) + 1
    /\ SubSeq(after, 1, Len(before)) = before

MatchesBefore == count_matches(constraint_names(call.before), call.args[3])

\* C14: create_nodal_constraint resolves the name ignoring case: without a
\* match it creates exactly one constraint, with one match it edits that
\* constraint in place, with several it raises and changes no constraint.
C14_UpsertByName ==
    (call.op = "create_nodal_constraint" /\ is_sim_part(call.work))
        => /\ MatchesBefore = 0
                  => CreatedOne(call.before.constraints, feModel.constraints)
           /\ MatchesBefore = 1
                  => OnlyChanged(call.before.constraints, feModel.constraints,
                                 first_match(constraint_names(call.before), call.args[3]))
           /\ MatchesBefore > 1
                  => /\ call.outcome = "raised"
                     /\ call.error = "ValueError"
                     /\ feModel.constraints = call.before.constraints

\* C14, as the code has it: the same, the new constraint being created, and
\* the matching one edited, when the node label is a node of the model: the
\* new constraint has the name, the node and the six values given, the edited
\* one keeps its name and its place and takes the node and the values; with
\* a label that is no node and no match, no constraint is created.
C14_UpsertByNameOnExistingNode ==
    (call.op = "create_nodal_constraint" /\ is_sim_part(call.work))
        => LET before == call.before.constraints
               after == feModel.constraints
               target == first_match(constraint_names(call.before), call.args[3])
               known == call.args[1] \in call.before.nodes
           IN  /\ (MatchesBefore = 0 /\ known)
                      => /\ call.outcome = "returned"
                         /\ CreatedOne(before, after)
                         /\ after[Len(after)] =
                                Constraint(call.args[3], call.args[1], field_expressions(call.args[2]))
                         /\ call.returns = Len(after)
               /\ (MatchesBefore = 0 /\ ~known) => Len(after) = Len(before)
               /\ MatchesBefore = 1
                      => /\ call.outcome = "returned"
                         /\ OnlyChanged(before, after, target)
                         /\ after[target].Name = before[target].Name
                         /\ known => /\ after[target].node = call.args[1]
                                     /\ after[target].dofs = field_expressions(call.args[2])
                                     /\ call.returns = target
               /\ MatchesBefore > 1
                      => /\ call.outcome = "raised"
                         /\ call.error = "ValueError"
                         /\ after = before

\* a call that found two constraints with the name and raised
C14_Witness ==
    /\ call.op = "create_nodal_constraint"
    /\ is_sim_part(call.work)
    /\ MatchesBefore = 2
    /\ call.error = "ValueError"
    /\ call.args[1] \in call.before.nodes

\* C15: create_nodal_constraint with a label that is no node of the model
\* fails with an error, it does not return normally, and leaves the
\* constraints and their values as they were.
C15_MissingNodeFails ==
    (/\ call.op = "create_nodal_constraint"
     /\ is_sim_part(call.work)
     /\ call.args[1] \notin call.before.nodes)
        => /\ call.outcome = "raised"
           /\ feModel.constraints = call.before.constraints

\* C15, as the code has it: with a label that is no node of the model the
\* call leaves the constraints and their values as they were; it raises only
\* when several constraints have the name, and otherwise logs that the node
\* was not found, as its last line, and returns None.
C15_MissingNodeLogsAndReturnsNone ==
    (/\ call.op = "create_nodal_constraint"
     /\ is_sim_part(call.work)
     /\ call.args[1] \notin call.before.nodes)
        => /\ feModel.constraints = call.before.constraints
           /\ IF MatchesBefore > 1
              THEN call.outcome = "raised" /\ call.error = "ValueError"
              ELSE /\ call.outcome = "returned"
                   /\ call.returns = 0
                   /\ call.log # <<>>
                   /\ call.log[Len(call.log)] =
                          LogLine("CreateConstraint: node with label not found in the model. Constaint not created.",
                                  <<str_int(call.args[1])>>)

\* a call for a node that does not exist, on a name one constraint has
C15_Witness ==
    /\ call.op = "create_nodal_constraint"
    /\ is_sim_part(call.work)
    /\ call.args[1] \notin call.before.nodes
    /\ MatchesBefore = 1
    /\ call.outcome = "returned"
    /\ call.returns = 0

SolverSetsNamed(model, name) == count_matches(load_set_names(model), name)

\* C16: create_solver_set is an upsert by name ignoring case: a call made
\* from a simulation part when a solver set with the name exists adds no
\* solver set, logs that the set already exists and returns no set; so no
\* sequence of calls makes two solver sets with one name.
C16_SolverSetUpsert ==
    /\ \A name \in SolverSetNames : SolverSetsNamed(feModel, name) <= 1
    /\ (/\ call.op = "create_solver_set"
        /\ is_sim_part(call.work)
        /\ SolverSetsNamed(call.before, call.args[1]) > 0)
           => /\ feModel.loadSets = call.before.loadSets
              /\ call.outcome = "returned"
              /\ call.returns = 0
              /\ call.log = <<LogLine("CreateSolverSet: solver set with name already exists!",
                                      <<call.args[1]>>)>>

\* a second call, with the name in another case than the set has
C16_Witness ==
    /\ call.op = "create_solver_set"
    /\ is_sim_part(call.work)
    /\ SolverSetsNamed(call.before, call.args[1]) = 1
    /\ call.before.loadSets[1].Name # call.args[1]
    /\ call.returns = 0

AddCalls ==
    { "add_load_to_subcase", "add_constraint_to_solution", "add_constraint_to_subcase",
      "add_load_to_solver_set", "add_solver_set_to_subcase" }

\* whether each name of the last call resolves in the simulation before it
SolutionResolves(name) == first_match(SimSolutions, name) # 0

SubcaseResolves(solution_name, name) ==
    /\ SolutionResolves(solution_name)
    /\ \E k \in DOMAIN call.before.steps[first_match(SimSolutions, solution_name)] :
          lower(call.before.steps[first_match(SimSolutions, solution_name)][k].Name) = lower(name)

LoadResolves(name) == first_match(call.before.loads, name) # 0
ConstraintResolves(name) == first_match(constraint_names(call.before), name) # 0
SolverSetResolves(name) == SolverSetsNamed(call.before, name) > 0

AllNamesResolve ==
    CASE call.op = "add_load_to_subcase" ->
             SubcaseResolves(call.args[1], call.args[2]) /\ LoadResolves(call.args[3])
      [] call.op = "add_constraint_to_solution" ->
             SolutionResolves(call.args[1]) /\ ConstraintResolves(call.args[2])
      [] call.op = "add_constraint_to_subcase" ->
             SubcaseResolves(call.args[1], call.args[2]) /\ ConstraintResolves(call.args[3])
      [] call.op = "add_load_to_solver_set" ->
             SolverSetResolves(call.args[1]) /\ LoadResolves(call.args[2])
      [] call.op = "add_solver_set_to_subcase" ->
             SubcaseResolves(call.args[1], call.args[2]) /\ SolverSetResolves(call.args[3])

\* C17: each of the five add calls, given a name that does not resolve, logs
\* a message and returns without raising, and leaves what every solution,
\* subcase and solver set holds as it was.
C17_UnresolvedNameLogsAndReturns ==
    (call.op \in AddCalls /\ is_sim_part(call.work) /\ ~AllNamesResolve)
        => /\ call.outcome = "returned"
           /\ call.error = ""
           /\ Len(call.log) = 1
           /\ feModel = call.before

\* a constraint that does not exist, for a subcase that does
C17_Witness ==
    /\ call.op = "add_constraint_to_subcase"
    /\ is_sim_part(call.work)
    /\ SubcaseResolves(call.args[1], call.args[2])
    /\ ~ConstraintResolves(call.args[3])
    /\ call.outcome = "returned"
    /\ call.before.steps[1][1].bcs # {}

\* the node labels of the group of the last call, and the k-th smallest
GroupNodeLabels ==
    { caeGroups[1].entities[k].Label :
          k \in { j \in DOMAIN caeGroups[1].entities : caeGroups[1].entities[j].type = "FENode" } }

KthLabel(k) ==
    CHOOSE n \in GroupNodeLabels : Cardinality({ m \in GroupNodeLabels : m < n }) = k - 1

WrittenPaths == { call.written[k] : k \in DOMAIN call.written }

\* header, then one line per node of the group, ascending by label
HeaderAndNodeLines(content) ==
    LET lines == readlines(content) IN
    /\ Len(lines) = Cardinality(GroupNodeLabels) + 1
    /\ lines[1] = HeaderLine
    /\ \A k \in 1..Cardinality(GroupNodeLabels) :
          SubSeq(lines[k + 1], 1, 12) = format_e(Coordinates3(KthLabel(k))[1])

SubmodelCallResolves ==
    /\ call.op = "write_submodel_data_to_file"
    /\ is_sim_part(call.work)
    /\ first_match(SimSolutions, call.solution_name) # 0
    /\ lower(strip(call.group_name)) = lower(strip(SubmodelGroup))

\* C18: write_submodel_data_to_file, for a solution with S subcases and a
\* group with M nodes, writes S distinct files, one per subcase, each the
\* header line followed by M data lines, one per node, ascending by label
\* whatever the order in which the group reports its nodes.
C18_OneFilePerSubcase ==
    SubmodelCallResolves
        => LET steps == feModel.steps[first_match(SimSolutions, call.solution_name)] IN
           /\ call.outcome = "returned"
           /\ Len(call.written) = Len(steps)
           /\ Cardinality(WrittenPaths) = Len(steps)
           /\ \A path \in WrittenPaths : exists(path, files) /\ HeaderAndNodeLines(files[path])

\* a <= b for two str, by the first place where they differ
StrLeq(a, b) ==
    LET differ == { k \in 1..Len(a) : k > Len(b) \/ a[k] # b[k] } IN
    IF differ = {} THEN TRUE
    ELSE LET k == CHOOSE i \in differ : \A j \in differ : i <= j
         IN  k <= Len(b) /\ ord(a[k]) < ord(b[k])

SameKey(x, y) ==
    /\ x.solution = y.solution
    /\ x.subcase = y.subcase
    /\ x.iteration = y.iteration
    /\ x.resultType = y.resultType

\* (solution, subcase, iteration, result type) of x is at most that of y
KeyLeq(x, y) ==
    IF x.solution # y.solution THEN StrLeq(x.solution, y.solution)
    ELSE IF x.subcase # y.subcase THEN x.subcase < y.subcase
    ELSE IF x.iteration # y.iteration THEN x.iteration < y.iteration
    ELSE StrLeq(x.resultType, y.resultType)

\* the items of a list that have the key of x, in the order of the list
WithKeyOf(list, x) ==
    LET Test(y) == SameKey(x, y) IN SelectSeq(list, Test)

\* C19: sort_screenshots returns a permutation of its input with the key
\* (solution, subcase, iteration, result type) non-decreasing, the items with
\* equal keys in their input order, and leaves the input list as it was.
C19_StableSortByKey ==
    call.op = "sort_screenshots"
        => /\ Len(call.returns) = Len(call.screenshots)
           /\ \A i, j \in DOMAIN call.returns :
                  i < j => KeyLeq(call.returns[i], call.returns[j])
           /\ \A k \in DOMAIN call.screenshots :
                  WithKeyOf(call.returns, call.screenshots[k])
                      = WithKeyOf(call.screenshots, call.screenshots[k])
           /\ postInputs = call.screenshots

\* a list out of order with two items of one key, q before p
C19_Witness ==
    /\ call.op = "sort_screenshots"
    /\ Len(call.screenshots) = 3
    /\ call.returns # call.screenshots
    /\ \E i, j \in DOMAIN call.returns :
          /\ i < j
          /\ SameKey(call.returns[i], call.returns[j])
          /\ call.returns[i].file_name = <<"q">>
          /\ call.returns[j].file_name = <<"p">>

\* C20: create_full_path is idempotent: for every file name and extension
\* for which it returns a path p, create_full_path(p, extension) returns p.
C20_Idempotent ==
    (call.op = "create_full_path" /\ call.again)
        => call.error = "" /\ call.path = call.file_name

\* the last component of the name has a character that is not a dot
HasBaseName(file_name) ==
    \E k \in (rfind(file_name, "/") + 1)..Len(file_name) : file_name[k] # "."

\* no extension, or a dot followed by characters other than the separator
IsExtension(extension) ==
    \/ extension = <<>>
    \/ /\ extension[1] = "."
       /\ \A k \in DOMAIN extension : extension[k] # "/"

\* C20, as the code has it: create_full_path(p, extension) returns p for
\* the path p made of a file name whose last component has a character other
\* than a dot, with an extension that is empty or a dot followed by
\* characters other than the separator.
C20_IdempotentOnFileNames ==
    (/\ call.op = "create_full_path"
     /\ call.again
     /\ HasBaseName(call.given)
     /\ IsExtension(call.extension))
        => call.error = "" /\ call.path = call.file_name

\* the path made of the name a with the extension .a, passed once more
C20_Witness ==
    /\ call.op = "create_full_path"
    /\ call.again
    /\ call.given = <<"a">>
    /\ call.extension = <<".", "a">>
    /\ call.file_name = <<"/", "m", "/", "a", ".", "a">>
    /\ call.path = call.file_name

\* C21: bisector_multiple_planes, for a list of N >= 1 planes, creates
\* exactly N-1 bisector planes, one per consecutive pair and in order, and
\* returns a list of length 2N-1 whose position 2k holds the k-th plane passed
\* and whose position 2k+1 holds the bisector of planes k and k+1 (positions
\* and planes counted from 0); the list passed is not modified.
C21_BisectorsInterleaved ==
    (call.op = "bisector_multiple_planes" /\ Len(call.planes) >= 1) =>
        LET N == Len(call.planes)
            bisector(k) == DatumPlaneFeature(Len(call.before) + k,
                                             <<call.planes[k].id, call.planes[k + 1].id>>)
        IN /\ feModel.features = call.before \o [k \in 1..(N - 1) |-> bisector(k)]
           /\ Len(call.returns) = 2 * N - 1
           /\ \A k \in 1..N : call.returns[2 * k - 1] = call.planes[k]
           /\ \A k \in 1..(N - 1) : call.returns[2 * k] = bisector(k)
           /\ call.planes_after = call.planes

\* three planes passed, two bisectors made
C21_Witness ==
    /\ call.op = "bisector_multiple_planes"
    /\ Len(call.planes) = 3
    /\ Len(call.returns) = 5
    /\ Len(feModel.features) = Len(call.before) + 2
    /\ call.returns[2].geometry = <<call.planes[1].id, call.planes[2].id>>
    /\ call.returns[4].geometry = <<call.planes[2].id, call.planes[3].id>>

\* C22: print_part_tree on a finite-element-assembly part with k child
\* components recurses into the owning part of every one of the k children:
\* after the line of the assembly, each child's part is printed once, in
\* order, one level deeper, for every k >= 0.
C22_EveryChildPrinted ==
    (call.op = "print_part_tree" /\ call.base_part = "plate.afem") =>
        LET children == feModel.children["plate.afem"]
        IN /\ Len(call.lines) = 1 + Len(children)
           /\ \A k \in DOMAIN children :
                  /\ call.lines[k + 1].part = children[k]
                  /\ call.lines[k + 1].tabs = call.lines[1].tabs + 1

\* what the code does: the last child is left out
C22_AllButLastChildPrinted ==
    (call.op = "print_part_tree" /\ call.base_part = "plate.afem") =>
        LET children == feModel.children["plate.afem"]
            printed == IF children = <<>> THEN 0 ELSE Len(children) - 1
        IN /\ Len(call.lines) = 1 + printed
           /\ \A k \in 1..printed :
                  /\ call.lines[k + 1].part = children[k]
                  /\ call.lines[k + 1].tabs = call.lines[1].tabs + 1

ResultKey(screenshot) ==
    <<screenshot.solution, screenshot.subcase, screenshot.iteration, screenshot.resultType>>

\* C23: in the item loop of create_screen_shots a view is created for the
\* first item and, for every later item, only when its (solution, subcase,
\* iteration, result type) differs from that of the previous item in
\* sorted order; an item that differs from its predecessor in other fields
\* only reuses the view.
C23_ViewPerResult ==
    call.op = "create_screen_shots" =>
        \A i \in DOMAIN call.views :
            call.views[i].created <=>
                \/ i = 1
                \/ ResultKey(call.views[i].screenshot) # ResultKey(call.views[i - 1].screenshot)

\* C23, as the code has it: the component name belongs to what is compared;
\* a view is created for the first item and for every later item whose
\* (solution, subcase, iteration, result type, component name) differs from
\* that of the previous item in sorted order, and for no other item.
C23_ViewPerResultAndComponent ==
    call.op = "create_screen_shots" =>
        \A i \in DOMAIN call.views :
            call.views[i].created <=>
                \/ i = 1
                \/ ResultKey(call.views[i].screenshot) # ResultKey(call.views[i - 1].screenshot)
                \/ call.views[i].screenshot.component_name
                       # call.views[i - 1].screenshot.component_name

\* a second item that differs from the first in its group only and reuses
\* the view
C23_Witness ==
    /\ call.op = "create_screen_shots"
    /\ Len(call.views) = 2
    /\ call.views[1].created
    /\ ~call.views[2].created
    /\ call.views[2].screenshot.group_name # call.views[1].screenshot.group_name

\* the groups of a list with a given name
Named(groups, name) == { k \in DOMAIN groups : groups[k].Name = name }

\* every duplicate a call made is the duplicate of a group that is referenced
\* by the filter list, not native to the simulation, not the output group,
\* not empty and without a duplicate before the call
DuplicatesOnlyOfEligibleGroups ==
    call.op = "copy_groups_to_sim_part" =>
        \A d \in DOMAIN call.returns :
            \E k \in DOMAIN call.before :
                LET group == call.before[k] IN
                /\ call.returns[d].Name = group.Name \o temp_suffix
                /\ in_list(group.Name, call.groups_in_screenshots)
                /\ group.OwningComponent # "None"
                /\ group.Name # OutputGroup
                /\ group.entities > 0
                /\ Named(call.before, group.Name \o temp_suffix) = {}

\* C24: copy_groups_to_sim_part never creates a temporary duplicate for a
\* group that is already duplicated, is empty, is native to the simulation
\* part, is named "OUTPUT GROUP" or is not referenced by the filter list;
\* consequently, after any number of calls, each group name has at most one
\* "_screenshot_generator_temp" duplicate and there is no duplicate of a
\* duplicate.
C24_AtMostOneDuplicate ==
    /\ DuplicatesOnlyOfEligibleGroups
    /\ \A k \in DOMAIN caeGroups :
           /\ Cardinality(Named(caeGroups, caeGroups[k].Name \o temp_suffix)) <= 1
           /\ Named(caeGroups, caeGroups[k].Name \o temp_suffix \o temp_suffix) = {}

\* what holds of the code: one duplicate for each eligible group, so one for
\* each name when the eligible groups have different names
C24_OneDuplicatePerEligibleGroup ==
    /\ DuplicatesOnlyOfEligibleGroups
    /\ \A k \in DOMAIN caeGroups :
           /\ Cardinality(Named(caeGroups, caeGroups[k].Name \o temp_suffix))
                  <= Cardinality({ j \in Named(caeGroups, caeGroups[k].Name) :
                                       caeGroups[j].OwningComponent # "None" })
           /\ Named(caeGroups, caeGroups[k].Name \o temp_suffix \o temp_suffix) = {}

Labels(tables) == { tables[k].label : k \in DOMAIN tables }

MaximumLabel(tables) ==
    IF tables = <<>> THEN 0 ELSE CHOOSE m \in Labels(tables) : \A l \in Labels(tables) : l <= m

\* C25: create_2dmesh_collector, called from a fem part, gives the new
\* physical property table the label (maximum existing label) + 1, or 1 when
\* there is no table, so the new label is the label of no existing table,
\* whatever order the host reports the tables in.
C25_NewLabelAboveMaximum ==
    (call.op = "create_2dmesh_collector" /\ PartClass(call.work) = "FemPart") =>
        LET before == call.before.collectors
            after == feModel.collectors
        IN /\ Len(after) = Len(before) + 1
           /\ after[Len(after)].label = MaximumLabel(before) + 1
           /\ after[Len(after)].label \notin Labels(before)

\* the label the code computes for the tables of the part is the label of
\* none of them
C25_ComputedLabelIsFree ==
    max_label(feModel.collectors) \notin Labels(feModel.collectors)

\* C26: a call of solve_solution that resolves the named solution submits
\* that solution to the solve manager exactly once: one solve per call, not
\* none and not two.
C26_SolvedExactlyOnce ==
    (/\ call.op = "solve_solution"
     /\ is_sim_part(call.work)
     /\ first_match(SimSolutions, call.args[1]) # 0)
        => feModel.solved
               = call.before.solved \o <<first_match(SimSolutions, call.args[1])>>

\* C27: validation and display agree in the screenshot pipeline: for every
\* screenshot whose group name check_screenshots accepts, the group-visibility
\* step finds a natively visible group or the temporary duplicate made by
\* copy_groups_to_sim_part, so a batch that passed validation never fails with
\* 'group not found' while it is processed.
C27_AcceptedGroupIsFound ==
    (call.op = "create_screen_shots" /\ call.stage \in {"load", "item", "done"}) =>
        \A k \in DOMAIN call.log :
            call.log[k].text # "Error: Group not found in the sim file."

\* C28: envelope_solution forwards the settings of its caller unchanged to
\* envelope_results: the envelope is made with the operation, shell section
\* and component passed, and its absolute-value flag equals the absolute
\* argument of envelope_solution, for True and for False.
C28_AbsoluteForwarded ==
    (call.op = "envelope_solution" /\ call.envelope # <<>>) =>
        /\ call.envelope[1].settings = call.args.settings
        /\ call.envelope[1].absolute = call.args.absolute

\* C29: get_result_types maps the indices, counted from 1, exactly: for a
\* PostInput with subcase s and iteration t it selects the s-th load case and
\* the t-th iteration when 1 <= s <= number of load cases and 1 <= t <= number
\* of iterations, and for s or t outside that range, 0 and negative values
\* included, it returns no result type but fails.
C29_IndicesMappedExactly ==
    call.op = "get_result_types" =>
        LET s == call.post_input.subcase
            t == call.post_input.iteration
        IN /\ call.error = call.returns.error
           /\ IF s \in 1..NumLoadcases /\ t \in 1..NumIterations
              THEN call.error = "" =>
                       call.returns.loadcase = s /\ call.returns.iteration = t
              ELSE call.error # ""

\* what holds of the code: the numbers in range select their load case and
\* iteration
C29_InRangeMappedExactly ==
    (/\ call.op = "get_result_types"
     /\ call.post_input.subcase \in 1..NumLoadcases
     /\ call.post_input.iteration \in 1..NumIterations
     /\ call.error = "")
        => /\ call.returns.loadcase = call.post_input.subcase
           /\ call.returns.iteration = call.post_input.iteration

\* the line by which combine_results, export_result and envelope_results
\* refuse a part that is not a simulation (lines 361, 478, 611)
RefusedByGuard ==
    /\ call.log # <<>>
    /\ call.log[1] \in { "CombineResults needs to start from a .sim file. Exiting",
                         "ExportResult needs to start from a .sim file. Exiting" }

\* C30: the simulation-part guard of combine_results, export_result and
\* envelope_results is evaluated against the work part that is active when the
\* function is called, the part get_solution resolves solutions in: the call
\* is refused exactly when that part is not a simulation, also after the work
\* part has changed since the module was loaded.
C30_GuardOnActiveWorkPart ==
    call.op \in {"combine_results", "export_result", "envelope_results"}
        => (RefusedByGuard <=> ~is_sim_part(call.work))

\* what the code does: the call is refused exactly when the part that was the
\* work part when the module was loaded is not a simulation
C30_GuardOnLoadTimePart ==
    call.op \in {"combine_results", "export_result", "envelope_results"}
        => (RefusedByGuard <=> ~is_sim_part(call.base))

====
